---- MODULE Spec2Model ----
(***************************************************************************)
(* A model of endless8's Engine.run (src/src/endless8/engine.py) together  *)
(* with the History store it writes to (src/src/endless8/history/          *)
(* history.py) and the KnowledgeBase (history/knowledge_base.py).          *)
(*                                                                         *)
(* Every await of Engine.run is one step: a collaborator call in flight is *)
(* a value of pc, and its return or its exception is an action.  A store   *)
(* write either succeeds or raises OSError, the observer callback either   *)
(* returns or raises, and cancel() may be called between any two steps.    *)
(***************************************************************************)
EXTENDS Integers, Sequences, FiniteSets, TLC

\* ------------------------------------------------------------------ bounds
MaxBudget == 2      \* largest task_input.max_iterations tried
MaxStored == 1      \* largest number of iterations already in history.jsonl
MaxKnowledge == 1   \* most knowledge items the Summary calls of one run return
MaxCriteria == 2    \* largest number of evaluations in a JudgmentResult tried
MaxSummaries == 3   \* largest History queried directly, and largest iteration in it
TwinBudget == 1     \* largest max_iterations of a run that is made twice
MaxLines == 2       \* most lines of a file a store is constructed directly over
MaxItems == 3       \* most items or summaries a store used directly keeps
MaxMany == 2        \* most items handed to one call of add_many
MaxWindow == 3      \* largest history_context_size tried
MaxPrior == 2       \* most iterations an earlier run left in the store of a run whose contexts are read
MaxRetries == 4     \* largest max_retries a JudgmentAgent is constructed with

Tools == {"Read", "WebSearch"}
\* The values of config.claude_options.allowed_tools tried.
AllowedSets == {{}, {"Read"}}

\* The default of history_context_size, in EngineConfig and in TaskInput.
DefaultContextSize == 5

VARIABLES
    \* constructor arguments of Engine (engine.py 81-108)
    intake_agent,       \* BOOLEAN: an intake agent is configured
    history_store,      \* BOOLEAN: a History is attached
    knowledge_base,     \* BOOLEAN: a KnowledgeBase is attached
    allowed_tools,      \* config.claude_options.allowed_tools, as a set
    config_history_context_size,    \* config.history_context_size
    \* arguments of run (engine.py 214-219)
    max_iter,           \* task_input.max_iterations
    on_progress,        \* BOOLEAN: a progress callback is given
    resume,             \* BOOLEAN
    task_history_context_size,      \* task_input.history_context_size
    \* Engine fields (engine.py 110-115)
    current_iteration,
    is_running,
    cancelled,
    start_iteration,
    history,            \* Engine._history: iterations of the summaries kept in memory
    knowledge,          \* Engine._knowledge: number of items kept in memory
    \* locals of run
    pc,
    iteration,          \* the loop variable of line 331
    final_judgment,
    intake_result,
    knowledge_list,     \* size of the knowledge list the last Summary call returned
    exc,                \* what the except clause of line 483 caught
    \* History (history.py) and KnowledgeBase (knowledge_base.py)
    summaries,          \* History._summaries, as iteration numbers
    log,                \* the lines of history.jsonl
    kb_items,           \* len(KnowledgeBase._items)
    kb_file,            \* number of lines of knowledge.jsonl
    \* what the caller and the collaborators observe
    result,             \* the LoopResult run returned
    raised,             \* the exception that left run
    execCalls,          \* context.iteration of every Execution call, in order
    events,             \* the events handed to on_progress, in order
    judged,             \* the judgments the Judgment calls returned, in order
    faults,             \* who raised during this run, or on the store used directly
    log_start,          \* the number of lines of history.jsonl when run was called
    cancel_at,          \* where run was when cancel() was called
    trace,              \* calls, returns, events and appends of run, in program order
    yielded,            \* the iterations of the summaries run_iter yielded, in order
    answer,             \* the last query put to the History directly, and its result
    script,             \* what the collaborators, the stores and cancel() did to run, in order
    first,              \* the run made before this one on the same inputs, if any
    \* a History or a KnowledgeBase used directly, with the content of its lines
    jsonl,              \* the lines of the file at self._path
    kept,               \* History._summaries or KnowledgeBase._items
    built,              \* BOOLEAN: the constructor has returned a store
    \* a JudgmentAgent (agents/judgment.py) whose run is called directly
    max_retries,        \* JudgmentAgent._max_retries
    attempt,            \* the loop variable of line 133
    last_error,         \* the message of the last exception caught
    judging,            \* where JudgmentAgent.run is
    attempts,           \* what every attempt did, in order
    judgment_out        \* what JudgmentAgent.run returned or raised

ctor == <<intake_agent, history_store, knowledge_base, allowed_tools,
          config_history_context_size>>
args == <<max_iter, on_progress, resume, task_history_context_size, log_start>>
fields == <<current_iteration, is_running, cancelled, start_iteration>>
memory == <<history, knowledge>>
stores == <<summaries, log, kb_items, kb_file>>
outcome == <<result, raised>>
direct == <<jsonl, kept, built>>
judge == <<max_retries, attempt, last_error, judging, attempts, judgment_out>>
vars == <<intake_agent, history_store, knowledge_base, allowed_tools,
          config_history_context_size,
          max_iter, on_progress, resume, task_history_context_size,
          current_iteration, is_running, cancelled, start_iteration,
          history, knowledge,
          pc, iteration, final_judgment, intake_result, knowledge_list, exc,
          summaries, log, kb_items, kb_file,
          result, raised, execCalls, events, judged, faults, log_start, cancel_at,
          trace, yielded, answer, script, first, jsonl, kept, built,
          max_retries, attempt, last_error, judging, attempts, judgment_out>>

\* ------------------------------------------------------------- data model
\* JudgmentResult (models/results.py 79-94): is_complete and the is_met flag
\* of each evaluation.  call numbers the Judgment call that made the object, so
\* that two judgments are told apart.
JudgmentResult(is_complete, evaluations, call) ==
    [is_complete |-> is_complete, evaluations |-> evaluations, call |-> call]
NoJudgment == JudgmentResult(FALSE, <<>>, 0)

\* Python's all() over the is_met flags, left to right.
RECURSIVE all(_)
all(flags) == IF flags = <<>> THEN TRUE ELSE Head(flags) /\ all(Tail(flags))

\* validate_consistency without its test: every combination is accepted.
validate_consistency_accepts_all(is_complete, evaluations) == TRUE

\* JudgmentResult.validate_consistency: TRUE when the validator returns self,
\* FALSE when it raises ValueError.
validate_consistency(is_complete, evaluations) ==
    ~(is_complete /\ ~all(evaluations))

\* What a Judgment call is tried with, for a task of one criterion: complete
\* with the criterion met, incomplete with it unmet, and complete with it
\* unmet - an object validate_consistency refuses to construct.
JudgmentsTried ==
    {[is_complete |-> TRUE, evaluations |-> <<TRUE>>],
     [is_complete |-> FALSE, evaluations |-> <<FALSE>>],
     [is_complete |-> TRUE, evaluations |-> <<FALSE>>]}

\* IntakeResult as run reads it: status and suggested_tools.
IntakeStatus == {"accepted", "needs_clarification", "rejected"}
IntakeResult(status, suggested_tools) ==
    [status |-> status, suggested_tools |-> suggested_tools]
NoIntake == IntakeResult("none", {})

\* The text of error_message, by the f-string that builds it.
Message(kind, missing, allowed) == [kind |-> kind, missing |-> missing, allowed |-> allowed]
NoMessage == Message("none", {}, {})

\* LoopResult (models/results.py 97-116).
LoopResult(status, iterations_used, fj, ir, msg) ==
    [status |-> status, iterations_used |-> iterations_used,
     final_judgment |-> fj, intake_result |-> ir, error_message |-> msg]
NoResult == LoopResult("none", 0, NoJudgment, NoIntake, NoMessage)

\* LoopStatus (models/results.py 25-31).
LoopStatus == {"completed", "max_iterations", "error", "cancelled"}

\* error_message = "": a string, but an empty one.
EmptyMessage == Message("", {}, {})

\* Python's `not x` for an error_message and for a final_judgment.
Falsy(x) == x \in {NoMessage, EmptyMessage, NoJudgment}

\* LoopResult.validate_status_fields: TRUE when the validator returns self,
\* FALSE when it raises ValueError.
validate_status_fields(r) ==
    /\ ~(r.status = "error" /\ Falsy(r.error_message))
    /\ ~(r.status = "completed" /\ Falsy(r.final_judgment))

\* The three record types of history.jsonl (history.py 98-112, 215-222, 260-267).
SummaryRecord(i) ==
    [type |-> "summary", iteration |-> i, is_complete |-> FALSE, status |-> "none"]
JudgmentRecord(j, i) ==
    [type |-> "judgment", iteration |-> i, is_complete |-> j.is_complete, status |-> "none"]
FinalResultRecord(r) ==
    [type |-> "final_result", iteration |-> r.iterations_used,
     is_complete |-> r.final_judgment.is_complete, status |-> r.status]

\* Where run stood when cancel() was called: pc and _current_iteration.
CancelPoint(at, it) == [pc |-> at, iteration |-> it]
NoCancel == CancelPoint("none", 0)

ProgressEvent(event_type, it) == [event_type |-> event_type, iteration |-> it]

\* What run does to the outside, in program order: a collaborator is called, it
\* returns (ok) or raises, the callback is handed an event and returns (ok) or
\* raises, a line is appended to history.jsonl (ok) or the write raises.
TraceEntry(kind, name, it, ok) == [kind |-> kind, name |-> name, iteration |-> it, ok |-> ok]
Called(agent, it) == <<TraceEntry("call", agent, it, TRUE)>>
Back(agent, it, ok) == <<TraceEntry("return", agent, it, ok)>>

\* One thing done to run from outside: a collaborator returned value (ok) or
\* raised, a write went through (ok) or raised OSError, cancel() was called.
Fed(kind, ok, value) == <<[kind |-> kind, ok |-> ok, value |-> value]>>

\* No run was made before this one.
NoFirst == [made |-> FALSE]

\* ------------------------------------------------------------------ History
\* History.get_last_iteration
get_last_iteration == IF summaries = <<>> THEN 0 ELSE summaries[Len(summaries)]

\* The log an earlier run of n iterations, none of them complete, left behind.
RECURSIVE PriorLog(_)
PriorLog(n) ==
    IF n = 0 THEN <<>>
    ELSE PriorLog(n - 1) \o <<SummaryRecord(n), JudgmentRecord(NoJudgment, n)>>

\* History._load_existing: the iterations of the summary records, in file order.
RECURSIVE load_existing(_)
load_existing(lines) ==
    IF lines = <<>> THEN <<>>
    ELSE LET rest == load_existing(SubSeq(lines, 1, Len(lines) - 1))
             last == lines[Len(lines)]
         IN  IF last.type = "summary" THEN Append(rest, last.iteration) ELSE rest

\* History.get_recent(limit) (history.py 121-135): summaries[start_idx:] with
\* start_idx = max(0, len - limit), on the list held.
get_recent(held, limit) ==
    IF held = <<>> THEN <<>>
    ELSE LET start_idx == IF Len(held) - limit > 0 THEN Len(held) - limit ELSE 0
         IN  SubSeq(held, start_idx + 1, Len(held))

\* A query put to a History that held `held`, and the value it returned.
Answer(op, limit, held, value) ==
    [op |-> op, limit |-> limit, held |-> held, value |-> value]
NoAnswer == Answer("none", 0, <<>>, <<>>)

\* JudgmentAgent.run has let nothing out.
NoOutcome == [how |-> "none", what |-> "none"]

\* No JudgmentAgent is run directly.
NoJudgmentAgent ==
    /\ max_retries = 0
    /\ attempt = 0
    /\ last_error = "none"
    /\ judging = "idle"
    /\ attempts = <<>>
    /\ judgment_out = NoOutcome

\* ------------------------------------------------------------ construction
Init ==
    /\ intake_agent \in BOOLEAN
    /\ history_store \in BOOLEAN
    /\ knowledge_base \in BOOLEAN
    /\ allowed_tools \in AllowedSets
    /\ NoJudgmentAgent
    /\ config_history_context_size = DefaultContextSize
    /\ task_history_context_size = DefaultContextSize
    /\ max_iter = 0
    /\ on_progress = FALSE
    /\ resume = FALSE
    /\ current_iteration = 0
    /\ is_running = FALSE
    /\ cancelled = FALSE
    /\ start_iteration = 1
    /\ history = <<>>
    /\ knowledge = 0
    /\ pc = "idle"
    /\ iteration = 0
    /\ final_judgment = NoJudgment
    /\ intake_result = NoIntake
    /\ knowledge_list = 0
    /\ exc = "none"
    /\ \E n \in 0..MaxStored:
        /\ log = IF history_store THEN PriorLog(n) ELSE <<>>
        /\ summaries = load_existing(log)
    /\ kb_items = 0
    /\ kb_file = 0
    /\ result = NoResult
    /\ raised = "none"
    /\ execCalls = <<>>
    /\ events = <<>>
    /\ judged = <<>>
    /\ faults = {}
    /\ log_start = 0
    /\ cancel_at = NoCancel
    /\ trace = <<>>
    /\ yielded = <<>>
    /\ answer = NoAnswer
    /\ script = <<>>
    /\ first = NoFirst
    /\ jsonl = <<>>
    /\ kept = <<>>
    /\ built = FALSE

\* ------------------------------------------------------ failure and effects
\* What a call of on_progress can do: it is not called when no callback is given.
ObserverOutcomes == IF on_progress THEN {"ok", "raise"} ELSE {"ok"}

\* What a write to history.jsonl or output.md can do.
WriteOutcomes == IF history_store THEN {"ok", "oserror"} ELSE {"ok"}

\* Engine._emit_progress: the callback is handed the event.
emit_progress(event_type, it) ==
    events' = IF on_progress THEN Append(events, ProgressEvent(event_type, it)) ELSE events

\* The trace of one call of _emit_progress whose callback did o.
Emitted(event_type, it, o) ==
    IF on_progress THEN <<TraceEntry("event", event_type, it, o = "ok")>> ELSE <<>>

\* The trace of one append of rec to history.jsonl that did w.
Written(rec, w) ==
    IF history_store THEN <<TraceEntry("write", rec.type, rec.iteration, w = "ok")>> ELSE <<>>

\* What one write to history.jsonl (or output.md) that did w adds to script.
Wrote(kind, w) == IF history_store THEN Fed(kind, w = "ok", 0) ELSE <<>>

\* An exception raised inside the try block of run: line 483 catches it.
Caught(kind) ==
    /\ pc' = "except"
    /\ exc' = kind
    /\ faults' = faults \cup {kind}

\* No exception: run goes on at next.
Goto(next) ==
    /\ pc' = next
    /\ UNCHANGED <<exc, faults>>

\* run returns r.
Return(r) ==
    /\ pc' = "returned"
    /\ result' = r
    /\ UNCHANGED <<raised, exc, faults>>

\* The f-string messages of lines 281, 307 and 325.
missing_tools == intake_result.suggested_tools \ allowed_tools

\* _initialize_from_history without the + 1: the last iteration is run again.
initialize_from_history_repeats ==
    IF history_store /\ get_last_iteration > 0
    THEN get_last_iteration
    ELSE start_iteration

\* Engine._initialize_from_history: the value of _start_iteration after it.
initialize_from_history ==
    IF history_store /\ get_last_iteration > 0
    THEN get_last_iteration + 1
    ELSE start_iteration

\* Line 330.
start == IF resume THEN start_iteration ELSE 1

\* --------------------------------------------------------------- Engine.run
\* Lines 230-238: run is called.
Run(budget, callback, res) ==
    /\ pc = "idle"
    /\ max_iter' = budget
    /\ on_progress' = callback
    /\ resume' = res
    /\ log_start' = Len(log)
    /\ is_running' = TRUE
    /\ cancelled' = FALSE
    /\ current_iteration' = 0
    /\ final_judgment' = NoJudgment
    /\ start_iteration' = IF res THEN initialize_from_history ELSE start_iteration
    /\ pc' = "task_start"
    /\ UNCHANGED <<judge, ctor, task_history_context_size, memory, stores, outcome, iteration, intake_result,
                   knowledge_list, exc, execCalls, events, judged, faults, cancel_at,
                   trace, yielded, answer, direct, first, script>>

\* Lines 240-259: TASK_START is emitted, then Intake is called if there is one.
EmitTaskStart ==
    /\ pc = "task_start"
    /\ emit_progress("task_start", 0)
    /\ \E o \in ObserverOutcomes:
        \/ /\ o = "ok"
           /\ Goto(IF intake_agent THEN "intake" ELSE "loop")
           /\ iteration' = IF intake_agent THEN iteration ELSE start
           /\ trace' = trace \o Emitted("task_start", 0, o)
                              \o (IF intake_agent THEN Called("intake", 0) ELSE <<>>)
        \/ /\ o = "raise"
           /\ Caught("observer")
           /\ UNCHANGED iteration
           /\ trace' = trace \o Emitted("task_start", 0, o)
    /\ UNCHANGED <<judge, ctor, args, direct, answer, first, script, yielded, fields, memory, stores, outcome, final_judgment,
                   intake_result, knowledge_list, execCalls, judged, cancel_at>>

\* Line 257: the Intake call returns.
IntakeReturn(status, suggested_tools) ==
    /\ pc = "intake"
    /\ intake_result' = IntakeResult(status, suggested_tools)
    /\ trace' = trace \o Back("intake", 0, TRUE)
    /\ Goto("intake_complete")
    /\ script' = script \o Fed("intake", TRUE, intake_result')
    /\ UNCHANGED <<judge, ctor, args, direct, answer, first, yielded, fields, memory, stores, outcome, iteration,
                   final_judgment, knowledge_list, execCalls, events, judged, cancel_at>>

\* IntakeRaise as if the Intake call stood outside the try block.
IntakeRaisePropagates ==
    /\ pc = "intake"
    /\ pc' = "raised"
    /\ raised' = "intake"
    /\ faults' = faults \cup {"intake"}
    /\ trace' = trace \o Back("intake", 0, FALSE)
    /\ script' = script \o Fed("intake", FALSE, NoIntake)
    /\ UNCHANGED <<judge, ctor, args, direct, answer, first, yielded, fields, memory, stores, result, iteration,
                   final_judgment, intake_result, knowledge_list, exc, execCalls, events,
                   judged, cancel_at>>

\* Line 257: the Intake call raises.
IntakeRaise ==
    /\ pc = "intake"
    /\ trace' = trace \o Back("intake", 0, FALSE)
    /\ Caught("intake")
    /\ script' = script \o Fed("intake", FALSE, NoIntake)
    /\ UNCHANGED <<judge, ctor, args, direct, answer, first, yielded, fields, memory, stores, outcome, iteration,
                   final_judgment, intake_result, knowledge_list, execCalls, events,
                   judged, cancel_at>>

\* Lines 261-266.
EmitIntakeComplete ==
    /\ pc = "intake_complete"
    /\ emit_progress("intake_complete", 0)
    /\ \E o \in ObserverOutcomes:
        /\ trace' = trace \o Emitted("intake_complete", 0, o)
        /\ \/ o = "ok" /\ Goto("gate")
           \/ o = "raise" /\ Caught("observer")
    /\ UNCHANGED <<judge, ctor, args, direct, answer, first, script, yielded, fields, memory, stores, outcome, iteration,
                   final_judgment, intake_result, knowledge_list, execCalls, judged,
                   cancel_at>>

\* GateReturn building its LoopResult without the error_message argument.
GateReturnWithoutMessage(msg) ==
    /\ is_running' = FALSE
    /\ emit_progress("task_end", 0)
    /\ \E o \in ObserverOutcomes:
        /\ trace' = trace \o Emitted("task_end", 0, o)
        /\ \/ /\ o = "ok"
              /\ Return(LoopResult("error", 0, NoJudgment, intake_result, NoMessage))
           \/ /\ o = "raise"
              /\ Caught("observer")
              /\ UNCHANGED outcome
    /\ UNCHANGED <<judge, ctor, args, direct, answer, first, script, yielded, current_iteration, cancelled, start_iteration, memory,
                   stores, iteration, final_judgment, intake_result, knowledge_list,
                   execCalls, judged, cancel_at>>

\* An early return of the intake gate: _is_running is cleared, TASK_END is
\* emitted and the LoopResult is returned (lines 269-282, 290-310, 313-326).
GateReturn(msg) ==
    /\ is_running' = FALSE
    /\ emit_progress("task_end", 0)
    /\ \E o \in ObserverOutcomes:
        /\ trace' = trace \o Emitted("task_end", 0, o)
        /\ \/ /\ o = "ok"
              /\ Return(LoopResult("error", 0, NoJudgment, intake_result, msg))
           \/ /\ o = "raise"
              /\ Caught("observer")
              /\ UNCHANGED outcome
    /\ UNCHANGED <<judge, ctor, args, direct, answer, first, script, yielded, current_iteration, cancelled, start_iteration, memory,
                   stores, iteration, final_judgment, intake_result, knowledge_list,
                   execCalls, judged, cancel_at>>

\* Lines 268-282.
NeedsClarification ==
    /\ pc = "gate"
    /\ intake_result.status = "needs_clarification"
    /\ GateReturn(Message("clarification", {}, {}))

\* ToolMismatch naming every suggested tool instead of the missing ones.
ToolMismatchNamesAll ==
    /\ pc = "gate"
    /\ intake_result.status # "needs_clarification"
    /\ intake_result.suggested_tools # {}
    /\ missing_tools # {}
    /\ GateReturn(Message("tool_mismatch", intake_result.suggested_tools, allowed_tools))

\* Lines 284-310: the tool check comes before the check for a rejection.
ToolMismatch ==
    /\ pc = "gate"
    /\ intake_result.status # "needs_clarification"
    /\ intake_result.suggested_tools # {}
    /\ missing_tools # {}
    /\ GateReturn(Message("tool_mismatch", missing_tools, allowed_tools))

\* The tool check lets the intake result through.
ToolsCompatible == intake_result.suggested_tools = {} \/ missing_tools = {}

\* Rejected without its return: a rejected task enters the loop.
RejectedProceeds ==
    /\ pc = "gate"
    /\ intake_result.status = "rejected"
    /\ ToolsCompatible
    /\ iteration' = start
    /\ Goto("loop")
    /\ UNCHANGED <<judge, ctor, args, direct, answer, first, script, yielded, trace, fields, memory, stores, outcome, final_judgment,
                   intake_result, knowledge_list, execCalls, events, judged, cancel_at>>

\* Lines 312-326.
Rejected ==
    /\ pc = "gate"
    /\ intake_result.status = "rejected"
    /\ ToolsCompatible
    /\ GateReturn(Message("rejected", {}, {}))

\* Lines 328-331: the gate is passed, the loop begins at start.
EnterLoop ==
    /\ pc = "gate"
    /\ intake_result.status = "accepted"
    /\ ToolsCompatible
    /\ iteration' = start
    /\ Goto("loop")
    /\ UNCHANGED <<judge, ctor, args, direct, answer, first, script, yielded, trace, fields, memory, stores, outcome, final_judgment,
                   intake_result, knowledge_list, execCalls, events, judged, cancel_at>>

\* A write of record rec to history.jsonl by run, inside the try block, when a
\* History is attached: the line is appended, or OSError is raised and caught.
AppendOr(rec, next) ==
    \E w \in WriteOutcomes:
        /\ trace' = trace \o Written(rec, w)
        /\ script' = script \o Wrote("append", w)
        /\ \/ /\ w = "ok"
              /\ log' = IF history_store THEN Append(log, rec) ELSE log
              /\ Goto(next)
           \/ /\ w = "oserror"
              /\ log' = log
              /\ Caught("store")

\* SaveAndReturn without the call of append_final_result.
SaveAndReturnUnrecorded(r) ==
    /\ Return(r)
    /\ UNCHANGED <<judge, ctor, args, direct, answer, first, script, yielded, fields, memory, stores, iteration, trace,
                   final_judgment, intake_result, knowledge_list, execCalls, events,
                   judged, cancel_at>>

\* A terminal LoopResult r of the loop: History.append_final_result, then return
\* (lines 346-349, 456-459, 478-481).
SaveAndReturn(r) ==
    /\ \E w \in WriteOutcomes:
        /\ trace' = trace \o Written(FinalResultRecord(r), w)
        /\ script' = script \o Wrote("append", w)
        /\ \/ /\ w = "ok"
              /\ log' = IF history_store THEN Append(log, FinalResultRecord(r)) ELSE log
              /\ Return(r)
           \/ /\ w = "oserror"
              /\ log' = log
              /\ Caught("store")
              /\ UNCHANGED outcome
    /\ UNCHANGED <<judge, ctor, args, direct, answer, first, yielded, fields, memory, summaries, kb_items, kb_file, iteration,
                   final_judgment, intake_result, knowledge_list, execCalls, events,
                   judged, cancel_at>>

\* EndTask without the call of _emit_progress: the terminal record is written
\* with no TASK_END before it.
EndTaskUnannounced(it, next) ==
    /\ is_running' = FALSE
    /\ Goto(next)
    /\ UNCHANGED <<judge, ctor, args, direct, answer, first, script, yielded, current_iteration, cancelled, start_iteration, memory,
                   stores, outcome, iteration, final_judgment, intake_result,
                   knowledge_list, execCalls, judged, cancel_at, events, trace>>

\* _is_running is cleared and TASK_END is emitted before a terminal result is built.
EndTask(it, next) ==
    /\ is_running' = FALSE
    /\ emit_progress("task_end", it)
    /\ \E o \in ObserverOutcomes:
        /\ trace' = trace \o Emitted("task_end", it, o)
        /\ \/ o = "ok" /\ Goto(next)
           \/ o = "raise" /\ Caught("observer")
    /\ UNCHANGED <<judge, ctor, args, direct, answer, first, script, yielded, current_iteration, cancelled, start_iteration, memory,
                   stores, outcome, iteration, final_judgment, intake_result,
                   knowledge_list, execCalls, judged, cancel_at>>

\* Lines 332-340: the boundary check finds _cancelled set.
CancelledAtBoundary ==
    /\ pc = "loop"
    /\ iteration <= max_iter
    /\ cancelled
    /\ EndTask(iteration, "cancel_save")

\* Lines 341-349.
CancelledSave ==
    /\ pc = "cancel_save"
    /\ SaveAndReturn(LoopResult("cancelled", current_iteration, final_judgment,
                                NoIntake, NoMessage))

\* IterationStart without the boundary check of line 332.
IterationStartUnchecked ==
    /\ pc = "loop"
    /\ iteration <= max_iter
    /\ current_iteration' = iteration
    /\ emit_progress("iteration_start", iteration)
    /\ \E o \in ObserverOutcomes:
        \/ /\ o = "ok"
           /\ execCalls' = Append(execCalls, iteration)
           /\ trace' = trace \o Emitted("iteration_start", iteration, o)
                              \o Called("execution", iteration)
           /\ Goto("execution")
        \/ /\ o = "raise"
           /\ Caught("observer")
           /\ trace' = trace \o Emitted("iteration_start", iteration, o)
           /\ UNCHANGED execCalls
    /\ UNCHANGED <<judge, ctor, args, direct, answer, first, script, yielded, is_running, cancelled, start_iteration, memory, stores,
                   outcome, iteration, final_judgment, intake_result, knowledge_list,
                   judged, cancel_at>>

\* Lines 351-372: the iteration begins and Execution is called.
IterationStart ==
    /\ pc = "loop"
    /\ iteration <= max_iter
    /\ ~cancelled
    /\ current_iteration' = iteration
    /\ emit_progress("iteration_start", iteration)
    /\ \E o \in ObserverOutcomes:
        \/ /\ o = "ok"
           /\ execCalls' = Append(execCalls, iteration)
           /\ trace' = trace \o Emitted("iteration_start", iteration, o)
                              \o Called("execution", iteration)
           /\ Goto("execution")
        \/ /\ o = "raise"
           /\ Caught("observer")
           /\ trace' = trace \o Emitted("iteration_start", iteration, o)
           /\ UNCHANGED execCalls
    /\ UNCHANGED <<judge, ctor, args, direct, answer, first, script, yielded, is_running, cancelled, start_iteration, memory, stores,
                   outcome, iteration, final_judgment, intake_result, knowledge_list,
                   judged, cancel_at>>

\* Line 372: the Execution call returns.
ExecutionReturn ==
    /\ pc = "execution"
    /\ trace' = trace \o Back("execution", iteration, TRUE)
    /\ Goto("execution_complete")
    /\ script' = script \o Fed("execution", TRUE, 0)
    /\ UNCHANGED <<judge, ctor, args, direct, answer, first, yielded, fields, memory, stores, outcome, iteration,
                   final_judgment, intake_result, knowledge_list, execCalls, events,
                   judged, cancel_at>>

\* Line 372: the Execution call raises.
ExecutionRaise ==
    /\ pc = "execution"
    /\ trace' = trace \o Back("execution", iteration, FALSE)
    /\ Caught("execution")
    /\ script' = script \o Fed("execution", FALSE, 0)
    /\ UNCHANGED <<judge, ctor, args, direct, answer, first, yielded, fields, memory, stores, outcome, iteration,
                   final_judgment, intake_result, knowledge_list, execCalls, events,
                   judged, cancel_at>>

\* EmitExecutionComplete with the save of output.md (lines 381-390) nested
\* under the test for a callback: without one, Summary is called at once.
EmitExecutionCompleteGatesOutput ==
    /\ pc = "execution_complete"
    /\ emit_progress("execution_complete", iteration)
    /\ \E o \in ObserverOutcomes:
        /\ trace' = trace \o Emitted("execution_complete", iteration, o)
                           \o (IF on_progress THEN <<>> ELSE Called("summary", iteration))
        /\ \/ o = "ok" /\ Goto(IF on_progress THEN "save_output" ELSE "summary")
           \/ o = "raise" /\ Caught("observer")
    /\ UNCHANGED <<judge, ctor, args, direct, answer, first, script, yielded, fields, memory, stores, outcome,
                   iteration, final_judgment, intake_result, knowledge_list, execCalls,
                   judged, cancel_at>>

\* Lines 373-379.
EmitExecutionComplete ==
    /\ pc = "execution_complete"
    /\ emit_progress("execution_complete", iteration)
    /\ \E o \in ObserverOutcomes:
        /\ trace' = trace \o Emitted("execution_complete", iteration, o)
        /\ \/ o = "ok" /\ Goto("save_output")
           \/ o = "raise" /\ Caught("observer")
    /\ UNCHANGED <<judge, ctor, args, direct, answer, first, script, yielded, fields, memory, stores, outcome, iteration,
                   final_judgment, intake_result, knowledge_list, execCalls, judged,
                   cancel_at>>

\* Lines 381-392: output.md is written when a History is attached, then Summary
\* is called.
SaveOutput ==
    /\ pc = "save_output"
    /\ \E w \in WriteOutcomes:
        \/ /\ w = "ok"
           /\ script' = script \o Wrote("output_md", w)
           /\ trace' = trace \o Called("summary", iteration)
           /\ Goto("summary")
        \/ /\ w = "oserror"
           /\ script' = script \o Wrote("output_md", w)
           /\ trace' = trace
           /\ Caught("output_md")
    /\ UNCHANGED <<judge, ctor, args, direct, answer, first, yielded, fields, memory, stores, outcome, iteration,
                   final_judgment, intake_result, knowledge_list, execCalls, events,
                   judged, cancel_at>>

\* SummaryReturn with lines 398-400 left out: the summary is not appended to
\* the History before Judgment is called.
SummaryReturnUnpersisted(k) ==
    /\ knowledge + k <= MaxKnowledge
    /\ pc = "summary"
    /\ history' = Append(history, iteration)
    /\ knowledge' = knowledge + k
    /\ knowledge_list' = k
    /\ trace' = trace \o Back("summary", iteration, TRUE)
    /\ Goto("persist_knowledge")
    /\ script' = script \o Fed("summary", TRUE, k)
    /\ UNCHANGED <<judge, ctor, args, direct, answer, first, yielded, fields, stores, outcome, iteration, final_judgment,
                   intake_result, execCalls, events, judged, cancel_at>>

\* Lines 392-396: the Summary call returns a summary of this iteration and k
\* knowledge items.
SummaryReturn(k) ==
    /\ knowledge + k <= MaxKnowledge
    /\ pc = "summary"
    /\ history' = Append(history, iteration)
    /\ knowledge' = knowledge + k
    /\ knowledge_list' = k
    /\ trace' = trace \o Back("summary", iteration, TRUE)
    /\ Goto("persist_summary")
    /\ script' = script \o Fed("summary", TRUE, k)
    /\ UNCHANGED <<judge, ctor, args, direct, answer, first, yielded, fields, stores, outcome, iteration, final_judgment,
                   intake_result, execCalls, events, judged, cancel_at>>

\* Line 392: the Summary call raises.
SummaryRaise ==
    /\ pc = "summary"
    /\ trace' = trace \o Back("summary", iteration, FALSE)
    /\ Caught("summary")
    /\ script' = script \o Fed("summary", FALSE, 0)
    /\ UNCHANGED <<judge, ctor, args, direct, answer, first, yielded, fields, memory, stores, outcome, iteration,
                   final_judgment, intake_result, knowledge_list, execCalls, events,
                   judged, cancel_at>>

\* PersistSummary with the OSError passed over: the loop goes on.
PersistSummarySwallows ==
    /\ pc = "persist_summary"
    /\ summaries' = IF history_store THEN Append(summaries, iteration) ELSE summaries
    /\ \E w \in WriteOutcomes:
        /\ trace' = trace \o Written(SummaryRecord(iteration), w)
        /\ script' = script \o Wrote("append", w)
        /\ \/ /\ w = "ok"
              /\ log' = IF history_store THEN Append(log, SummaryRecord(iteration)) ELSE log
              /\ UNCHANGED faults
           \/ /\ w = "oserror"
              /\ log' = log
              /\ faults' = faults \cup {"store"}
    /\ pc' = "persist_knowledge"
    /\ UNCHANGED <<judge, ctor, args, direct, answer, first, yielded, fields, memory, kb_items, kb_file, outcome, iteration,
                   final_judgment, intake_result, knowledge_list, exc, execCalls, events,
                   judged, cancel_at>>

\* Lines 398-400 with History.append (history.py 88-119): the summary joins
\* _summaries first, the line is written after.
PersistSummary ==
    /\ pc = "persist_summary"
    /\ summaries' = IF history_store THEN Append(summaries, iteration) ELSE summaries
    /\ AppendOr(SummaryRecord(iteration), "persist_knowledge")
    /\ UNCHANGED <<judge, ctor, args, direct, answer, first, yielded, fields, memory, kb_items, kb_file, outcome, iteration,
                   final_judgment, intake_result, knowledge_list, execCalls, events,
                   judged, cancel_at>>

\* Lines 402-404 with KnowledgeBase.add_many (knowledge_base.py 75-92): one write
\* per item, w of them succeed; an item joins _items before its write.
PersistKnowledge ==
    /\ pc = "persist_knowledge"
    /\ IF knowledge_base /\ knowledge_list > 0
       THEN \E w \in 0..knowledge_list:
               \/ /\ w = knowledge_list
                  /\ kb_items' = kb_items + w
                  /\ kb_file' = kb_file + w
                  /\ Goto("judgment")
               \/ /\ w < knowledge_list
                  /\ kb_items' = kb_items + w + 1
                  /\ kb_file' = kb_file + w
                  /\ Caught("knowledge")
       ELSE /\ UNCHANGED <<kb_items, kb_file>>
            /\ Goto("judgment")
    /\ trace' = IF pc' = "judgment" THEN trace \o Called("judgment", iteration) ELSE trace
    /\ script' = IF knowledge_base /\ knowledge_list > 0
                  THEN script \o Fed("add_many", pc' = "judgment", kb_file' - kb_file)
                  ELSE script
    /\ UNCHANGED <<judge, ctor, args, direct, answer, first, yielded, fields, memory, summaries, log, outcome, iteration,
                   final_judgment, intake_result, knowledge_list, execCalls, events,
                   judged, cancel_at>>

\* Line 416: the Judgment call returns a JudgmentResult, an object whose
\* construction passed validate_consistency.
JudgmentReturn(is_complete, evaluations) ==
    /\ pc = "judgment"
    /\ validate_consistency(is_complete, evaluations)
    /\ final_judgment' = JudgmentResult(is_complete, evaluations, Len(judged) + 1)
    /\ judged' = Append(judged, [iteration |-> iteration, judgment |-> final_judgment'])
    /\ trace' = trace \o Back("judgment", iteration, TRUE)
    /\ Goto("judgment_complete")
    /\ script' = script \o Fed("judgment", TRUE, final_judgment')
    /\ UNCHANGED <<judge, ctor, args, direct, answer, first, yielded, fields, memory, stores, outcome, iteration,
                   intake_result, knowledge_list, execCalls, events, cancel_at>>

\* Line 416: the Judgment call raises.
JudgmentRaise ==
    /\ pc = "judgment"
    /\ trace' = trace \o Back("judgment", iteration, FALSE)
    /\ Caught("judgment")
    /\ script' = script \o Fed("judgment", FALSE, NoJudgment)
    /\ UNCHANGED <<judge, ctor, args, direct, answer, first, yielded, fields, memory, stores, outcome, iteration,
                   final_judgment, intake_result, knowledge_list, execCalls, events,
                   judged, cancel_at>>

\* EmitJudgmentComplete with ITERATION_END left out: the judgment is written
\* right after JUDGMENT_COMPLETE.
EmitJudgmentCompleteThenPersist ==
    /\ pc = "judgment_complete"
    /\ emit_progress("judgment_complete", iteration)
    /\ \E o \in ObserverOutcomes:
        /\ trace' = trace \o Emitted("judgment_complete", iteration, o)
        /\ \/ o = "ok" /\ Goto("persist_judgment")
           \/ o = "raise" /\ Caught("observer")
    /\ UNCHANGED <<judge, ctor, args, direct, answer, first, script, yielded, fields, memory, stores, outcome, iteration,
                   final_judgment, intake_result, knowledge_list, execCalls, judged,
                   cancel_at>>

\* Lines 418-424.
EmitJudgmentComplete ==
    /\ pc = "judgment_complete"
    /\ emit_progress("judgment_complete", iteration)
    /\ \E o \in ObserverOutcomes:
        /\ trace' = trace \o Emitted("judgment_complete", iteration, o)
        /\ \/ o = "ok" /\ Goto("iteration_end")
           \/ o = "raise" /\ Caught("observer")
    /\ UNCHANGED <<judge, ctor, args, direct, answer, first, script, yielded, fields, memory, stores, outcome, iteration,
                   final_judgment, intake_result, knowledge_list, execCalls, judged,
                   cancel_at>>

\* Lines 426-433.
EmitIterationEnd ==
    /\ pc = "iteration_end"
    /\ emit_progress("iteration_end", iteration)
    /\ \E o \in ObserverOutcomes:
        /\ trace' = trace \o Emitted("iteration_end", iteration, o)
        /\ \/ o = "ok" /\ Goto("persist_judgment")
           \/ o = "raise" /\ Caught("observer")
    /\ UNCHANGED <<judge, ctor, args, direct, answer, first, script, yielded, fields, memory, stores, outcome, iteration,
                   final_judgment, intake_result, knowledge_list, execCalls, judged,
                   cancel_at>>

\* PersistJudgment with the test of line 441 left out: the loop goes on after a
\* complete judgment.
PersistJudgmentIgnoresCompletion ==
    /\ pc = "persist_judgment"
    /\ AppendOr(JudgmentRecord(final_judgment, iteration), "loop")
    /\ iteration' = IF pc' = "loop" THEN iteration + 1 ELSE iteration
    /\ UNCHANGED <<judge, ctor, args, direct, answer, first, yielded, fields, memory, summaries, kb_items, kb_file, outcome,
                   final_judgment, intake_result, knowledge_list, execCalls, events,
                   judged, cancel_at>>

\* Lines 435-441 and the loop's step: the judgment is written; a complete
\* judgment ends the loop, any other moves on to the next iteration.
PersistJudgment ==
    /\ pc = "persist_judgment"
    /\ AppendOr(JudgmentRecord(final_judgment, iteration),
                IF final_judgment.is_complete THEN "completed" ELSE "loop")
    /\ iteration' = IF pc' = "loop" THEN iteration + 1 ELSE iteration
    /\ UNCHANGED <<judge, ctor, args, direct, answer, first, yielded, fields, memory, summaries, kb_items, kb_file, outcome,
                   final_judgment, intake_result, knowledge_list, execCalls, events,
                   judged, cancel_at>>

\* Lines 441-449.
Completed ==
    /\ pc = "completed"
    /\ EndTask(iteration, "completed_save")

\* CompletedSave reporting the iterations this call of run went through, not
\* the number of the last one.
CompletedSaveCountsOwn ==
    /\ pc = "completed_save"
    /\ SaveAndReturn(LoopResult("completed", iteration - start + 1, final_judgment,
                                NoIntake, NoMessage))

\* Lines 450-459.
CompletedSave ==
    /\ pc = "completed_save"
    /\ SaveAndReturn(LoopResult("completed", iteration, final_judgment,
                                NoIntake, NoMessage))

\* MaxIterations with range(start, max_iter) in place of range(start, max_iter + 1).
MaxIterationsOffByOne ==
    /\ pc = "loop"
    /\ iteration >= max_iter
    /\ EndTask(max_iter, "max_iterations_save")

\* Lines 463-471: range(start, max_iter + 1) is exhausted.
MaxIterations ==
    /\ pc = "loop"
    /\ iteration > max_iter
    /\ EndTask(max_iter, "max_iterations_save")

\* MaxIterationsSave reporting _current_iteration in place of the budget.
MaxIterationsSaveCountsCurrent ==
    /\ pc = "max_iterations_save"
    /\ SaveAndReturn(LoopResult("max_iterations", current_iteration, final_judgment,
                                NoIntake, NoMessage))

\* Lines 472-481.
MaxIterationsSave ==
    /\ pc = "max_iterations_save"
    /\ SaveAndReturn(LoopResult("max_iterations", max_iter, final_judgment,
                                NoIntake, NoMessage))

\* Except with the callback's exception passed over: the handler goes on to
\* build the error result whatever the callback does.
ExceptIsolatesObserver ==
    /\ pc = "except"
    /\ is_running' = FALSE
    /\ emit_progress("task_end", current_iteration)
    /\ \E o \in ObserverOutcomes:
        /\ trace' = trace \o Emitted("task_end", current_iteration, o)
        /\ pc' = "except_save"
        /\ faults' = IF o = "ok" THEN faults ELSE faults \cup {"observer"}
        /\ UNCHANGED raised
    /\ UNCHANGED <<judge, ctor, args, direct, answer, first, script, yielded, current_iteration, cancelled, start_iteration, memory,
                   stores, result, iteration, final_judgment, intake_result,
                   knowledge_list, exc, execCalls, judged, cancel_at>>

\* Lines 483-499: the except clause clears _is_running and emits TASK_END; an
\* exception of the callback here leaves run.
Except ==
    /\ pc = "except"
    /\ is_running' = FALSE
    /\ emit_progress("task_end", current_iteration)
    /\ \E o \in ObserverOutcomes:
        /\ trace' = trace \o Emitted("task_end", current_iteration, o)
        /\ \/ /\ o = "ok"
              /\ pc' = "except_save"
              /\ UNCHANGED <<raised, faults>>
           \/ /\ o = "raise"
              /\ pc' = "raised"
              /\ raised' = "observer"
              /\ faults' = faults \cup {"observer"}
    /\ UNCHANGED <<judge, ctor, args, direct, answer, first, script, yielded, current_iteration, cancelled, start_iteration, memory,
                   stores, result, iteration, final_judgment, intake_result,
                   knowledge_list, exc, execCalls, judged, cancel_at>>

\* ExceptSave reporting the iterations completed, not the one that failed.
ExceptSaveCompletedOnly ==
    /\ pc = "except_save"
    /\ LET r == LoopResult("error",
                           IF current_iteration > 0 THEN current_iteration - 1 ELSE 0,
                           NoJudgment, NoIntake, Message("exception", {}, {}))
       IN  \E w \in WriteOutcomes:
             /\ trace' = trace \o Written(FinalResultRecord(r), w)
             /\ script' = script \o Wrote("append", w)
             /\ \/ /\ w = "ok"
                   /\ result' = r
                   /\ log' = IF history_store THEN Append(log, FinalResultRecord(r)) ELSE log
                   /\ pc' = "returned"
                   /\ UNCHANGED <<raised, faults>>
                \/ /\ w = "oserror"
                   /\ log' = log
                   /\ pc' = "raised"
                   /\ raised' = "store"
                   /\ faults' = faults \cup {"store"}
                   /\ UNCHANGED result
    /\ UNCHANGED <<judge, ctor, args, direct, answer, first, yielded, fields, memory, summaries, kb_items, kb_file, iteration,
                   final_judgment, intake_result, knowledge_list, exc, execCalls, events,
                   judged, cancel_at>>

\* Lines 500-508: the error result is built and written; an OSError of this
\* write leaves run.
ExceptSave ==
    /\ pc = "except_save"
    /\ LET r == LoopResult("error", current_iteration, NoJudgment, NoIntake,
                           Message("exception", {}, {}))
       IN  \E w \in WriteOutcomes:
             /\ trace' = trace \o Written(FinalResultRecord(r), w)
             /\ script' = script \o Wrote("append", w)
             /\ \/ /\ w = "ok"
                   /\ result' = r
                   /\ log' = IF history_store THEN Append(log, FinalResultRecord(r)) ELSE log
                   /\ pc' = "returned"
                   /\ UNCHANGED <<raised, faults>>
                \/ /\ w = "oserror"
                   /\ log' = log
                   /\ pc' = "raised"
                   /\ raised' = "store"
                   /\ faults' = faults \cup {"store"}
                   /\ UNCHANGED result
    /\ UNCHANGED <<judge, ctor, args, direct, answer, first, yielded, fields, memory, summaries, kb_items, kb_file, iteration,
                   final_judgment, intake_result, knowledge_list, exc, execCalls, events,
                   judged, cancel_at>>

\* ----------------------------------------------------------- Engine.run_iter
\* run_iter is an async generator: its body runs from one pull of the consumer
\* to the next yield.  It takes no callback and no resume flag, checks only
\* needs_clarification after Intake, writes no terminal record, and re-raises
\* what its except clause catches (lines 604-606).

\* Lines 604-606: an exception inside the try block of run_iter.
IterRaise(kind) ==
    /\ pc' = "iter_raised"
    /\ raised' = kind
    /\ is_running' = FALSE

\* Lines 519-528: the first pull.  The flags are set, Intake is called if there
\* is one, else the loop begins at 1.
RunIter(budget) ==
    /\ pc = "idle"
    /\ max_iter' = budget
    /\ log_start' = Len(log)
    /\ is_running' = TRUE
    /\ cancelled' = FALSE
    /\ current_iteration' = 0
    /\ IF intake_agent
       THEN /\ pc' = "iter_intake"
            /\ trace' = trace \o Called("intake", 0)
            /\ UNCHANGED iteration
       ELSE /\ pc' = "iter_loop"
            /\ trace' = trace
            /\ iteration' = 1
    /\ UNCHANGED <<judge, ctor, on_progress, resume, task_history_context_size, start_iteration, memory, stores, outcome,
                   final_judgment, intake_result, knowledge_list, exc, execCalls, events,
                   judged, faults, cancel_at, yielded, answer, direct, first, script>>

\* Lines 526-531: Intake returns; only needs_clarification ends the sequence.
IterIntakeReturn(status, suggested_tools) ==
    /\ pc = "iter_intake"
    /\ intake_result' = IntakeResult(status, suggested_tools)
    /\ trace' = trace \o Back("intake", 0, TRUE)
    /\ IF status = "needs_clarification"
       THEN /\ is_running' = FALSE
            /\ pc' = "iter_ended"
            /\ UNCHANGED iteration
       ELSE /\ pc' = "iter_loop"
            /\ iteration' = 1
            /\ UNCHANGED is_running
    /\ UNCHANGED <<judge, ctor, args, direct, answer, first, script, yielded, current_iteration, cancelled, start_iteration,
                   memory, stores, outcome, final_judgment,
                   knowledge_list, exc, execCalls, events, judged, faults, cancel_at>>

\* Line 526: Intake raises.
IterIntakeRaise ==
    /\ pc = "iter_intake"
    /\ trace' = trace \o Back("intake", 0, FALSE)
    /\ IterRaise("intake")
    /\ UNCHANGED <<judge, ctor, args, direct, answer, first, script, yielded, current_iteration, cancelled, start_iteration,
                   memory, stores, result, iteration, final_judgment, intake_result,
                   knowledge_list, exc, execCalls, events, judged, faults, cancel_at>>

\* Lines 536-538: the boundary check finds _cancelled set.
IterCancelled ==
    /\ pc = "iter_loop"
    /\ iteration <= max_iter
    /\ cancelled
    /\ is_running' = FALSE
    /\ pc' = "iter_ended"
    /\ UNCHANGED <<judge, ctor, args, direct, answer, first, script, yielded, trace, current_iteration, cancelled,
                   start_iteration, memory, stores, outcome, iteration, final_judgment,
                   intake_result, knowledge_list, exc, execCalls, events, judged, faults,
                   cancel_at>>

\* Lines 540-553: the iteration begins and Execution is called.
IterIterationStart ==
    /\ pc = "iter_loop"
    /\ iteration <= max_iter
    /\ ~cancelled
    /\ current_iteration' = iteration
    /\ execCalls' = Append(execCalls, iteration)
    /\ trace' = trace \o Called("execution", iteration)
    /\ pc' = "iter_execution"
    /\ UNCHANGED <<judge, ctor, args, direct, answer, first, script, yielded, is_running, cancelled, start_iteration, memory,
                   stores, outcome, iteration, final_judgment, intake_result,
                   knowledge_list, exc, events, judged, faults, cancel_at>>

\* Lines 553-568: Execution returns, output.md is written when a History is
\* attached, Summary is called.
IterExecutionReturn ==
    /\ pc = "iter_execution"
    /\ \E w \in WriteOutcomes:
        \/ /\ w = "ok"
           /\ trace' = trace \o Back("execution", iteration, TRUE)
                              \o Called("summary", iteration)
           /\ pc' = "iter_summary"
           /\ UNCHANGED <<raised, is_running>>
        \/ /\ w = "oserror"
           /\ trace' = trace \o Back("execution", iteration, TRUE)
           /\ IterRaise("output_md")
    /\ UNCHANGED <<judge, ctor, args, direct, answer, first, script, yielded, current_iteration, cancelled, start_iteration,
                   memory, stores, result, iteration, final_judgment, intake_result,
                   knowledge_list, exc, execCalls, events, judged, faults, cancel_at>>

\* Line 553: Execution raises.
IterExecutionRaise ==
    /\ pc = "iter_execution"
    /\ trace' = trace \o Back("execution", iteration, FALSE)
    /\ IterRaise("execution")
    /\ UNCHANGED <<judge, ctor, args, direct, answer, first, script, yielded, current_iteration, cancelled, start_iteration,
                   memory, stores, result, iteration, final_judgment, intake_result,
                   knowledge_list, exc, execCalls, events, judged, faults, cancel_at>>

\* IterSummaryReturn yielding the summary at once, before lines 573-578 persist
\* it.
IterSummaryReturnYieldsFirst(k) ==
    /\ knowledge + k <= MaxKnowledge
    /\ pc = "iter_summary"
    /\ history' = Append(history, iteration)
    /\ knowledge' = knowledge + k
    /\ knowledge_list' = k
    /\ trace' = trace \o Back("summary", iteration, TRUE)
    /\ yielded' = Append(yielded, iteration)
    /\ pc' = "iter_yielded"
    /\ UNCHANGED <<judge, ctor, args, direct, answer, first, script, fields, stores, outcome, iteration,
                   final_judgment, intake_result, exc, execCalls, events, judged, faults,
                   cancel_at>>

\* Lines 566-570: Summary returns a summary of this iteration and k knowledge
\* items.
IterSummaryReturn(k) ==
    /\ knowledge + k <= MaxKnowledge
    /\ pc = "iter_summary"
    /\ history' = Append(history, iteration)
    /\ knowledge' = knowledge + k
    /\ knowledge_list' = k
    /\ trace' = trace \o Back("summary", iteration, TRUE)
    /\ pc' = "iter_persist_summary"
    /\ UNCHANGED <<judge, ctor, args, direct, answer, first, script, yielded, fields, stores, outcome, iteration,
                   final_judgment, intake_result, exc, execCalls, events, judged, faults,
                   cancel_at>>

\* Line 566: Summary raises.
IterSummaryRaise ==
    /\ pc = "iter_summary"
    /\ trace' = trace \o Back("summary", iteration, FALSE)
    /\ IterRaise("summary")
    /\ UNCHANGED <<judge, ctor, args, direct, answer, first, script, yielded, current_iteration, cancelled, start_iteration,
                   memory, stores, result, iteration, final_judgment, intake_result,
                   knowledge_list, exc, execCalls, events, judged, faults, cancel_at>>

\* Lines 572-574 with History.append.
IterPersistSummary ==
    /\ pc = "iter_persist_summary"
    /\ summaries' = IF history_store THEN Append(summaries, iteration) ELSE summaries
    /\ \E w \in WriteOutcomes:
        /\ trace' = trace \o Written(SummaryRecord(iteration), w)
        /\ \/ /\ w = "ok"
              /\ log' = IF history_store THEN Append(log, SummaryRecord(iteration)) ELSE log
              /\ pc' = "iter_persist_knowledge"
              /\ UNCHANGED <<raised, is_running>>
           \/ /\ w = "oserror"
              /\ log' = log
              /\ IterRaise("store")
    /\ UNCHANGED <<judge, ctor, args, direct, answer, first, script, yielded, current_iteration, cancelled, start_iteration,
                   memory, kb_items, kb_file, result, iteration, final_judgment,
                   intake_result, knowledge_list, exc, execCalls, events, judged, faults,
                   cancel_at>>

\* Lines 576-580 with KnowledgeBase.add_many, then the yield: the generator is
\* suspended and the consumer holds the summary.
IterPersistKnowledge ==
    /\ pc = "iter_persist_knowledge"
    /\ IF knowledge_base /\ knowledge_list > 0
       THEN \E w \in 0..knowledge_list:
               \/ /\ w = knowledge_list
                  /\ kb_items' = kb_items + w
                  /\ kb_file' = kb_file + w
                  /\ pc' = "iter_yielded"
                  /\ UNCHANGED <<raised, is_running>>
               \/ /\ w < knowledge_list
                  /\ kb_items' = kb_items + w + 1
                  /\ kb_file' = kb_file + w
                  /\ IterRaise("knowledge")
       ELSE /\ UNCHANGED <<kb_items, kb_file, raised, is_running>>
            /\ pc' = "iter_yielded"
    /\ yielded' = IF pc' = "iter_yielded" THEN Append(yielded, iteration) ELSE yielded
    /\ UNCHANGED <<judge, ctor, args, direct, answer, first, script, trace, current_iteration, cancelled,
                   start_iteration, memory, summaries, log, result, iteration, final_judgment,
                   intake_result, knowledge_list, exc, execCalls, events, judged, faults,
                   cancel_at>>

\* Lines 585-592: the consumer asks for the next summary; the generator goes on
\* after the yield and calls Judgment.
IterResume ==
    /\ pc = "iter_yielded"
    /\ trace' = trace \o Called("judgment", iteration)
    /\ pc' = "iter_judgment"
    /\ UNCHANGED <<judge, ctor, args, direct, answer, first, script, yielded, fields, memory, stores, outcome, iteration,
                   final_judgment, intake_result, knowledge_list, exc, execCalls, events,
                   judged, faults, cancel_at>>

\* The consumer closes the generator while it is suspended at the yield:
\* GeneratorExit is raised there, which `except Exception` does not catch.
IterClose ==
    /\ pc = "iter_yielded"
    /\ pc' = "iter_closed"
    /\ UNCHANGED <<judge, ctor, args, direct, answer, first, script, yielded, trace, fields, memory, stores, outcome,
                   iteration, final_judgment, intake_result, knowledge_list, exc,
                   execCalls, events, judged, faults, cancel_at>>

\* Line 592: Judgment returns.
IterJudgmentReturn(is_complete, evaluations) ==
    /\ pc = "iter_judgment"
    /\ validate_consistency(is_complete, evaluations)
    /\ final_judgment' = JudgmentResult(is_complete, evaluations, Len(judged) + 1)
    /\ judged' = Append(judged, [iteration |-> iteration, judgment |-> final_judgment'])
    /\ trace' = trace \o Back("judgment", iteration, TRUE)
    /\ pc' = "iter_persist_judgment"
    /\ UNCHANGED <<judge, ctor, args, direct, answer, first, script, yielded, fields, memory, stores, outcome, iteration,
                   intake_result, knowledge_list, exc, execCalls, events, faults,
                   cancel_at>>

\* Line 592: Judgment raises.
IterJudgmentRaise ==
    /\ pc = "iter_judgment"
    /\ trace' = trace \o Back("judgment", iteration, FALSE)
    /\ IterRaise("judgment")
    /\ UNCHANGED <<judge, ctor, args, direct, answer, first, script, yielded, current_iteration, cancelled, start_iteration,
                   memory, stores, result, iteration, final_judgment, intake_result,
                   knowledge_list, exc, execCalls, events, judged, faults, cancel_at>>

\* Lines 594-600 and the loop's step: the judgment is written; a complete
\* judgment ends the sequence, any other moves on to the next iteration.
IterPersistJudgment ==
    /\ pc = "iter_persist_judgment"
    /\ \E w \in WriteOutcomes:
        /\ trace' = trace \o Written(JudgmentRecord(final_judgment, iteration), w)
        /\ \/ /\ w = "ok"
              /\ log' = IF history_store
                        THEN Append(log, JudgmentRecord(final_judgment, iteration))
                        ELSE log
              /\ pc' = IF final_judgment.is_complete THEN "iter_ended" ELSE "iter_loop"
              /\ is_running' = IF final_judgment.is_complete THEN FALSE ELSE is_running
              /\ iteration' = IF final_judgment.is_complete THEN iteration ELSE iteration + 1
              /\ UNCHANGED raised
           \/ /\ w = "oserror"
              /\ log' = log
              /\ IterRaise("store")
              /\ UNCHANGED iteration
    /\ UNCHANGED <<judge, ctor, args, direct, answer, first, script, yielded, current_iteration, cancelled, start_iteration,
                   memory, summaries, kb_items, kb_file, result, final_judgment,
                   intake_result, knowledge_list, exc, execCalls, events, judged, faults,
                   cancel_at>>

\* Line 602: range(1, max_iter + 1) is exhausted.
IterExhausted ==
    /\ pc = "iter_loop"
    /\ iteration > max_iter
    /\ is_running' = FALSE
    /\ pc' = "iter_ended"
    /\ UNCHANGED <<judge, ctor, args, direct, answer, first, script, yielded, trace, current_iteration, cancelled,
                   start_iteration, memory, stores, outcome, iteration, final_judgment,
                   intake_result, knowledge_list, exc, execCalls, events, judged, faults,
                   cancel_at>>

\* Where run and run_iter stand when cancel() is tried: before and after run,
\* and where they are suspended (the Intake or the Execution call in flight,
\* the callback that precedes the loop's boundary check, the yield of
\* run_iter).  A cancel() during the Summary or the Judgment call of an
\* iteration is read at the same boundary as one during its Execution call.
CancelPoints == {"idle", "intake", "loop", "execution", "returned", "raised",
                 "iter_intake", "iter_execution", "iter_yielded"}

\* Engine.cancel (lines 610-613).  A second call changes nothing.
Cancel ==
    /\ pc \in CancelPoints
    /\ ~cancelled
    /\ cancelled' = TRUE
    /\ is_running' = FALSE
    /\ cancel_at' = IF pc \in {"idle", "returned", "raised"}
                    THEN cancel_at
                    ELSE CancelPoint(pc, current_iteration)
    /\ script' = IF pc \in {"intake", "loop", "execution"}
                  THEN script \o Fed("cancel", TRUE, 0)
                  ELSE script
    /\ UNCHANGED <<judge, ctor, args, direct, answer, first, yielded, trace, current_iteration, start_iteration, memory, stores,
                   outcome, pc, iteration, final_judgment, intake_result,
                   knowledge_list, exc, execCalls, events, judged, faults>>

Next ==
    \/ \E budget \in 1..MaxBudget, callback \in BOOLEAN, res \in BOOLEAN:
          Run(budget, callback, res)
    \/ EmitTaskStart
    \/ \E status \in IntakeStatus, suggested_tools \in SUBSET Tools:
          IntakeReturn(status, suggested_tools)
    \/ IntakeRaise
    \/ EmitIntakeComplete
    \/ NeedsClarification
    \/ ToolMismatch
    \/ Rejected
    \/ EnterLoop
    \/ CancelledAtBoundary
    \/ CancelledSave
    \/ IterationStart
    \/ ExecutionReturn
    \/ ExecutionRaise
    \/ EmitExecutionComplete
    \/ SaveOutput
    \/ \E k \in 0..MaxKnowledge: SummaryReturn(k)
    \/ SummaryRaise
    \/ PersistSummary
    \/ PersistKnowledge
    \/ \E j \in JudgmentsTried: JudgmentReturn(j.is_complete, j.evaluations)
    \/ JudgmentRaise
    \/ EmitJudgmentComplete
    \/ EmitIterationEnd
    \/ PersistJudgment
    \/ Completed
    \/ CompletedSave
    \/ MaxIterations
    \/ MaxIterationsSave
    \/ Except
    \/ ExceptSave
    \/ Cancel
    \/ \E budget \in 1..MaxBudget: RunIter(budget)
    \/ \E status \in IntakeStatus, suggested_tools \in {{}, Tools}:
          IterIntakeReturn(status, suggested_tools)
    \/ IterIntakeRaise
    \/ IterCancelled
    \/ IterIterationStart
    \/ IterExecutionReturn
    \/ IterExecutionRaise
    \/ \E k \in 0..MaxKnowledge: IterSummaryReturn(k)
    \/ IterSummaryRaise
    \/ IterPersistSummary
    \/ IterPersistKnowledge
    \/ IterResume
    \/ IterClose
    \/ \E j \in JudgmentsTried: IterJudgmentReturn(j.is_complete, j.evaluations)
    \/ IterJudgmentRaise
    \/ IterPersistJudgment
    \/ IterExhausted

Spec == Init /\ [][Next]_vars

\* ------------------------------------------------------- run, with fairness
\* An Engine whose configuration restricts no tool.
LiveInit == Init /\ allowed_tools = {}

\* The steps of run and cancel().
LiveNext ==
    \/ \E budget \in 1..MaxBudget, callback \in BOOLEAN, res \in BOOLEAN:
          Run(budget, callback, res)
    \/ EmitTaskStart
    \/ \E status \in IntakeStatus: IntakeReturn(status, {})
    \/ IntakeRaise
    \/ EmitIntakeComplete
    \/ NeedsClarification
    \/ Rejected
    \/ EnterLoop
    \/ CancelledAtBoundary
    \/ CancelledSave
    \/ IterationStart
    \/ ExecutionReturn
    \/ ExecutionRaise
    \/ EmitExecutionComplete
    \/ SaveOutput
    \/ \E k \in 0..MaxKnowledge: SummaryReturn(k)
    \/ SummaryRaise
    \/ PersistSummary
    \/ PersistKnowledge
    \/ \E j \in JudgmentsTried: JudgmentReturn(j.is_complete, j.evaluations)
    \/ JudgmentRaise
    \/ EmitJudgmentComplete
    \/ EmitIterationEnd
    \/ PersistJudgment
    \/ Completed
    \/ CompletedSave
    \/ MaxIterations
    \/ MaxIterationsSave
    \/ Except
    \/ ExceptSave
    \/ Cancel

\* Every call on a collaborator, every write to a store and every call of the
\* observer returns or raises in the end: a step of run that can be taken is
\* taken.
SpecLive == LiveInit /\ [][LiveNext]_vars /\ WF_vars(LiveNext)

\* ------------------------------------------------ the same run, made twice
\* run is called with a callback; when it has ended and the callback never
\* raised, an Engine built the same way over the stores as they were is run
\* without a callback, and its collaborators, its stores and cancel() do to it
\* what they did to the first run.

\* What is kept of the first run.
Kept ==
    [made |-> TRUE, max_iter |-> max_iter, resume |-> resume, script |-> script,
     trace |-> trace, execCalls |-> execCalls, log |-> log, kb_file |-> kb_file,
     ended |-> pc, result |-> result, raised |-> raised]

\* Engine.__init__ (lines 81-116) and History.__init__ once more, over the
\* history.jsonl and the knowledge.jsonl the first run found.
RunAgain ==
    /\ pc \in {"returned", "raised"}
    /\ ~first.made
    /\ on_progress
    /\ first' = Kept
    /\ max_iter' = 0
    /\ on_progress' = FALSE
    /\ resume' = FALSE
    /\ current_iteration' = 0
    /\ is_running' = FALSE
    /\ cancelled' = FALSE
    /\ start_iteration' = 1
    /\ history' = <<>>
    /\ knowledge' = 0
    /\ pc' = "idle"
    /\ iteration' = 0
    /\ final_judgment' = NoJudgment
    /\ intake_result' = NoIntake
    /\ knowledge_list' = 0
    /\ exc' = "none"
    /\ log' = SubSeq(log, 1, log_start)
    /\ summaries' = load_existing(log')
    /\ kb_items' = 0
    /\ kb_file' = 0
    /\ result' = NoResult
    /\ raised' = "none"
    /\ execCalls' = <<>>
    /\ events' = <<>>
    /\ judged' = <<>>
    /\ faults' = {}
    /\ log_start' = 0
    /\ cancel_at' = NoCancel
    /\ trace' = <<>>
    /\ script' = <<>>
    /\ UNCHANGED <<judge, ctor, task_history_context_size, yielded, answer, direct>>

\* The second run is done what the first was done, as long as it asks for the
\* same things: where both scripts hold an item of the same kind at the same
\* place the items are equal, and cancel() is called at the same place.
SameScript(mine, theirs) ==
    \A k \in DOMAIN mine :
        IF k > Len(theirs) THEN mine[k].kind # "cancel"
        ELSE IF mine[k].kind = theirs[k].kind THEN mine[k] = theirs[k]
        ELSE "cancel" \notin {mine[k].kind, theirs[k].kind}

\* Where cancel() is called on a run made twice: before an iteration begins.
TwinCancelPoints == {"intake", "loop"}

\* The first run was cancelled where the second now stands.
CancelDue ==
    /\ pc \in TwinCancelPoints
    /\ Len(script) < Len(first.script)
    /\ first.script[Len(script) + 1].kind = "cancel"

\* A step of either run: the callback of the first never raises.
Twin(step) ==
    /\ step
    /\ "observer" \notin faults'
    /\ first.made =>
          /\ SameScript(script', first.script)
          /\ CancelDue => script' # script

TwinNext ==
    \/ \E budget \in 1..TwinBudget, res \in BOOLEAN:
          ~first.made /\ Run(budget, TRUE, res)
    \/ first.made /\ Run(first.max_iter, FALSE, first.resume)
    \/ RunAgain
    \/ Twin(EmitTaskStart)
    \/ \E status \in IntakeStatus, suggested_tools \in SUBSET Tools:
          Twin(IntakeReturn(status, suggested_tools))
    \/ Twin(IntakeRaise)
    \/ Twin(EmitIntakeComplete)
    \/ Twin(NeedsClarification)
    \/ Twin(ToolMismatch)
    \/ Twin(Rejected)
    \/ Twin(EnterLoop)
    \/ Twin(CancelledAtBoundary)
    \/ Twin(CancelledSave)
    \/ Twin(IterationStart)
    \/ Twin(ExecutionReturn)
    \/ Twin(ExecutionRaise)
    \/ Twin(EmitExecutionComplete)
    \/ Twin(SaveOutput)
    \/ \E k \in 0..MaxKnowledge: Twin(SummaryReturn(k))
    \/ Twin(SummaryRaise)
    \/ Twin(PersistSummary)
    \/ Twin(PersistKnowledge)
    \/ \E j \in JudgmentsTried: Twin(JudgmentReturn(j.is_complete, j.evaluations))
    \/ Twin(JudgmentRaise)
    \/ Twin(EmitJudgmentComplete)
    \/ Twin(EmitIterationEnd)
    \/ Twin(PersistJudgment)
    \/ Twin(Completed)
    \/ Twin(CompletedSave)
    \/ Twin(MaxIterations)
    \/ Twin(MaxIterationsSave)
    \/ Twin(Except)
    \/ Twin(ExceptSave)
    \/ pc \in TwinCancelPoints /\ Twin(Cancel)

SpecTwin == Init /\ [][TwinNext]_vars

\* ------------------------------------------------- the History, used directly
\* A History constructed over a history.jsonl of any content and queried by
\* its caller: the inputs of its methods are drawn from bounded sets.

\* Everything but the History and the answers it gave.
engine == <<judge, ctor, args, fields, memory, pc, iteration, final_judgment, intake_result,
            knowledge_list, exc, kb_items, kb_file, outcome, execCalls, events, judged,
            faults, cancel_at, trace, yielded, script, first, direct>>

\* The iteration numbers of the summary lines of the files tried.
StoredLists == UNION {[1..n -> 1..MaxSummaries] : n \in 0..MaxSummaries}

\* History.__init__ (history.py 30-39) over such a file; no Engine is run.
HistoryInit ==
    /\ intake_agent = FALSE
    /\ history_store = TRUE
    /\ knowledge_base = FALSE
    /\ allowed_tools = {}
    /\ NoJudgmentAgent
    /\ config_history_context_size = DefaultContextSize
    /\ task_history_context_size = DefaultContextSize
    /\ max_iter = 0
    /\ on_progress = FALSE
    /\ resume = FALSE
    /\ current_iteration = 0
    /\ is_running = FALSE
    /\ cancelled = FALSE
    /\ start_iteration = 1
    /\ history = <<>>
    /\ knowledge = 0
    /\ pc = "idle"
    /\ iteration = 0
    /\ final_judgment = NoJudgment
    /\ intake_result = NoIntake
    /\ knowledge_list = 0
    /\ exc = "none"
    /\ \E stored \in StoredLists:
        /\ log = [k \in 1..Len(stored) |-> SummaryRecord(stored[k])]
        /\ summaries = load_existing(log)
    /\ kb_items = 0
    /\ kb_file = 0
    /\ result = NoResult
    /\ raised = "none"
    /\ execCalls = <<>>
    /\ events = <<>>
    /\ judged = <<>>
    /\ faults = {}
    /\ log_start = 0
    /\ cancel_at = NoCancel
    /\ trace = <<>>
    /\ yielded = <<>>
    /\ answer = NoAnswer
    /\ script = <<>>
    /\ first = NoFirst
    /\ jsonl = <<>>
    /\ kept = <<>>
    /\ built = FALSE

\* History.append (history.py 88-119) of a summary of iteration i: it joins
\* _summaries, then the line is written or the write raises OSError.
HistoryAppend(i) ==
    /\ Len(summaries) < MaxSummaries
    /\ summaries' = Append(summaries, i)
    /\ \E w \in {"ok", "oserror"}:
          log' = IF w = "ok" THEN Append(log, SummaryRecord(i)) ELSE log
    /\ UNCHANGED <<engine, answer>>

\* await history.get_recent(limit)
HistoryGetRecent(limit) ==
    /\ answer' = Answer("get_recent", limit, summaries, get_recent(summaries, limit))
    /\ UNCHANGED <<engine, summaries, log>>

HistoryNext ==
    \/ \E i \in 1..MaxSummaries: HistoryAppend(i)
    \/ \E limit \in 0..(MaxSummaries + 1): HistoryGetRecent(limit)

SpecHistory == HistoryInit /\ [][HistoryNext]_vars

\* ------------------------------------------ the stores, with their content
\* A History or a KnowledgeBase used directly by its caller, over a file of
\* any content: lines, summaries and items carry the fields the code writes
\* and reads.

\* None of Python, and an optional argument: <<>> when it is not given.
None == "None"

\* dict.get(key, default) on the object json.loads made of a line.
Get(data, key, default) == IF key \in DOMAIN data THEN data[key] ELSE default

\* A line of a JSONL file as the loaders see it: a JSON object (data holds its
\* keys), a line json.loads rejects (data tells what it was meant to be), or a
\* line that is empty once stripped.
Line(json, data) == [json |-> json, data |-> data]
Blank == Line("blank", [text |-> ""])
Garbage == Line("invalid", [text |-> "not json"])
\* The beginning of the line of record, cut short while it was written.
Torn(record) == Line("invalid", record)

\* What the constructor of a store did: it kept list, or exc left it.
Loaded(list) == [ok |-> TRUE, list |-> list, exc |-> "none"]
Raises(error) == [ok |-> FALSE, list |-> <<>>, exc |-> error]

\* A call made on a store that kept `held` over the lines `lines`: its
\* argument, the value it returned and the exception that left it.
Reply(op, arg, held, lines, value, error) ==
    [op |-> op, arg |-> arg, held |-> held, lines |-> lines, value |-> value, exc |-> error]

\* What a constructor call finds: whether the caller holds a store of the
\* same file already, and whether a write of that store has failed.
Before == [store |-> built, failed |-> faults # {}]

\* list[start:] of Python (knowledge_base.py 105).
slice_from(list, begin) ==
    LET from == IF begin < 0
                THEN (IF begin + Len(list) < 0 THEN 0 ELSE begin + Len(list))
                ELSE (IF begin > Len(list) THEN Len(list) ELSE begin)
    IN  SubSeq(list, from + 1, Len(list))

\* Everything of the Engine and of the stores it runs on.
run_and_stores == <<ctor, args, fields, memory, stores, pc, iteration, final_judgment,
                    intake_result, knowledge_list, exc, outcome, execCalls, events, judged,
                    cancel_at, trace, yielded, script, first>>
apart == <<judge, run_and_stores>>

\* No Engine is constructed nor run.
NoEngine ==
    /\ intake_agent = FALSE
    /\ history_store = FALSE
    /\ knowledge_base = FALSE
    /\ allowed_tools = {}
    /\ config_history_context_size = DefaultContextSize
    /\ task_history_context_size = DefaultContextSize
    /\ max_iter = 0
    /\ on_progress = FALSE
    /\ resume = FALSE
    /\ current_iteration = 0
    /\ is_running = FALSE
    /\ cancelled = FALSE
    /\ start_iteration = 1
    /\ history = <<>>
    /\ knowledge = 0
    /\ pc = "idle"
    /\ iteration = 0
    /\ final_judgment = NoJudgment
    /\ intake_result = NoIntake
    /\ knowledge_list = 0
    /\ exc = "none"
    /\ summaries = <<>>
    /\ log = <<>>
    /\ kb_items = 0
    /\ kb_file = 0
    /\ result = NoResult
    /\ raised = "none"
    /\ execCalls = <<>>
    /\ events = <<>>
    /\ judged = <<>>
    /\ faults = {}
    /\ log_start = 0
    /\ cancel_at = NoCancel
    /\ trace = <<>>
    /\ yielded = <<>>
    /\ script = <<>>
    /\ first = NoFirst

\* ------------------------------------------------------------ KnowledgeBase
\* Knowledge (models/knowledge.py 32-42).
Knowledge(type, category, content, example_file, source_task, confidence, applied_count, created_at) ==
    [type |-> type, category |-> category, content |-> content,
     example_file |-> example_file, source_task |-> source_task,
     confidence |-> confidence, applied_count |-> applied_count,
     created_at |-> created_at]

\* The items a caller adds: made at some time before they are added, the
\* second one applied once since.
KnowledgeTried ==
    {Knowledge("discovery", "general", "k1", None, "task", "high", "0", "made"),
     Knowledge("lesson", "testing", "k2", "a.py:1", "task", "low", "1", "made")}

\* KnowledgeBase._write_item (knowledge_base.py 57-73): the line of an item.
write_item(item) ==
    Line("object", [type |-> item.type, category |-> item.category,
                    content |-> item.content, source_task |-> item.source_task,
                    confidence |-> item.confidence, example_file |-> item.example_file])

\* The keys _load_existing reads with data[...] (knowledge_base.py 44-48).
KnowledgeKeys == {"type", "category", "content", "source_task", "confidence"}

\* The Knowledge built from a line (knowledge_base.py 43-50): applied_count and
\* created_at take their defaults, 0 and the time of loading.
knowledge_of(data) ==
    Knowledge(data.type, data.category, data.content, Get(data, "example_file", None),
              data.source_task, data.confidence, "0", "loading")

\* KnowledgeBase._load_existing (knowledge_base.py 32-51): empty lines are
\* passed over; json.loads and the subscripts stand in no try block.
RECURSIVE load_knowledge(_)
load_knowledge(lines) ==
    IF lines = <<>> THEN Loaded(<<>>)
    ELSE LET before == load_knowledge(SubSeq(lines, 1, Len(lines) - 1))
             line == lines[Len(lines)]
         IN  IF ~before.ok THEN before
             ELSE IF line.json = "blank" THEN before
             ELSE IF line.json = "invalid" THEN Raises("JSONDecodeError")
             ELSE IF ~(KnowledgeKeys \subseteq DOMAIN line.data) THEN Raises("KeyError")
             ELSE Loaded(Append(before.list, knowledge_of(line.data)))

\* KnowledgeBase.get_all (knowledge_base.py 94-105).
get_all(items, limit) ==
    IF limit = <<>> THEN items ELSE slice_from(items, 0 - limit[1])

\* The lines of knowledge.jsonl tried: those _write_item writes, an empty
\* line, a line that is not JSON.
KnowledgeLines == {write_item(k) : k \in KnowledgeTried} \cup {Blank, Garbage}

\* The files tried: up to MaxLines such lines, the last of which may have been
\* cut short while it was written.
KnowledgeFiles ==
    LET whole == UNION {[1..n -> KnowledgeLines] : n \in 0..MaxLines}
    IN  whole \cup {Append(SubSeq(f, 1, Len(f) - 1), Torn(f[Len(f)].data)) :
                        f \in {g \in whole : g # <<>> /\ g[Len(g)].json = "object"}}

KnowledgeBaseInit ==
    /\ NoEngine
    /\ NoJudgmentAgent
    /\ jsonl \in KnowledgeFiles
    /\ kept = <<>>
    /\ built = FALSE
    /\ answer = NoAnswer

\* KnowledgeBase(knowledge_path) (knowledge_base.py 22-30): the caller holds
\* the new store, none of whose writes has failed, when the constructor
\* returns, and the one it had otherwise.
KnowledgeBaseNew ==
    LET made == load_knowledge(jsonl) IN
    /\ built' = (built \/ made.ok)
    /\ kept' = IF made.ok THEN made.list ELSE kept
    /\ faults' = IF made.ok THEN {} ELSE faults
    /\ answer' = Reply("KnowledgeBase", Before, kept, jsonl, made.list, made.exc)
    /\ UNCHANGED <<apart, jsonl>>

\* What add leaves in _items and in the file when its write does w
\* (knowledge_base.py 75-83): the item joins _items before the line is written.
add(state, item, w) ==
    [items |-> Append(state.items, item),
     file |-> IF w = "ok" THEN Append(state.file, write_item(item)) ELSE state.file]

\* await kb.add(knowledge)
Add(item) ==
    /\ built
    /\ Len(kept) < MaxItems
    /\ \E w \in {"ok", "OSError"}:
        LET after == add([items |-> kept, file |-> jsonl], item, w) IN
        /\ kept' = after.items
        /\ jsonl' = after.file
        /\ faults' = IF w = "ok" THEN faults ELSE faults \cup {"knowledge"}
        /\ answer' = Reply("add", <<item>>, kept, jsonl, <<>>, IF w = "ok" THEN "none" ELSE w)
    /\ UNCHANGED <<apart, built>>

\* add_many going on with the items that follow the one whose write failed.
RECURSIVE add_each_goes_on(_, _, _)
add_each_goes_on(state, items, n) ==
    IF items = <<>> THEN state
    ELSE add_each_goes_on(add(state, items[1], IF n = 0 THEN "OSError" ELSE "ok"),
                          SubSeq(items, 2, Len(items)), n - 1)

\* add_many (knowledge_base.py 85-92) of which the first n writes go through:
\* add is called for one item after the other, and the first write that fails
\* ends the loop.
RECURSIVE add_each(_, _, _)
add_each(state, items, n) ==
    IF items = <<>> THEN state
    ELSE IF n = 0 THEN add(state, items[1], "OSError")
    ELSE add_each(add(state, items[1], "ok"), SubSeq(items, 2, Len(items)), n - 1)

\* await kb.add_many(items): it returns, or the write of item n + 1 raises
\* OSError, or the process dies after n writes and the store is lost with it.
AddMany(items) ==
    /\ built
    /\ Len(kept) + Len(items) <= MaxItems
    /\ \E n \in 0..Len(items):
       \E how \in IF n = Len(items) THEN {"none", "crash"} ELSE {"OSError", "crash"}:
        LET after == add_each([items |-> kept, file |-> jsonl], items, n) IN
        /\ jsonl' = after.file
        /\ kept' = IF how = "crash" THEN <<>> ELSE after.items
        /\ built' = (how # "crash")
        /\ faults' = IF how = "OSError" THEN faults \cup {"knowledge"}
                      ELSE IF how = "crash" THEN {} ELSE faults
        /\ answer' = Reply("add_many", items, kept, jsonl, <<n>>, how)
    /\ UNCHANGED apart

\* await kb.get_all(limit), and await kb.get_all()
GetAll(limit) ==
    /\ built
    /\ answer' = Reply("get_all", limit, kept, jsonl, get_all(kept, limit), "none")
    /\ UNCHANGED <<apart, direct, faults>>

KnowledgeBaseNext ==
    \/ KnowledgeBaseNew
    \/ \E item \in KnowledgeTried: Add(item)
    \/ \E items \in UNION {[1..n -> KnowledgeTried] : n \in 0..MaxMany}: AddMany(items)
    \/ \E limit \in {<<>>} \cup {<<n>> : n \in 0..(MaxItems + 1)}: GetAll(limit)

SpecKnowledgeBase == KnowledgeBaseInit /\ [][KnowledgeBaseNext]_vars

\* ------------------------------------------------ History, with its content
\* SummaryMetadata (models/summary.py 42-51).
SummaryMetadata(tools_used, files_modified, error_type, tokens_used, strategy_tags) ==
    [tools_used |-> tools_used, files_modified |-> files_modified,
     error_type |-> error_type, tokens_used |-> tokens_used,
     strategy_tags |-> strategy_tags]

\* ExecutionSummary (models/summary.py 63-74).
ExecutionSummary(it, approach, outcome_of, reason, artifacts, metadata, next, timestamp) ==
    [type |-> "summary", iteration |-> it, approach |-> approach, result |-> outcome_of,
     reason |-> reason, artifacts |-> artifacts, metadata |-> metadata, next |-> next,
     timestamp |-> timestamp]

\* The summaries a caller appends: of a success, and of a failure that names
\* its error type and what to do next.
SummariesTried ==
    {ExecutionSummary(1, "approach", "success", "reason", <<"a.py">>,
                      SummaryMetadata(<<"Edit">>, <<"a.py">>, None, "7", <<"tdd">>),
                      None, "10:00"),
     ExecutionSummary(2, "retry", "failure", "timeout", <<>>,
                      SummaryMetadata(<<"Bash">>, <<>>, "timeout", "9", <<>>),
                      "split the task", "10:05")}

\* The record of a summary, had append left its artifacts out.
summary_record_without_artifacts(s) ==
    Line("object",
         [type |-> "summary", iteration |-> s.iteration, approach |-> s.approach,
          result |-> s.result, reason |-> s.reason,
          metadata |-> [tools_used |-> s.metadata.tools_used,
                        files_modified |-> s.metadata.files_modified,
                        tokens_used |-> s.metadata.tokens_used,
                        strategy_tags |-> s.metadata.strategy_tags],
          timestamp |-> s.timestamp])

\* The record History.append writes for a summary (history.py 98-112).
summary_record(s) ==
    Line("object",
         [type |-> "summary", iteration |-> s.iteration, approach |-> s.approach,
          result |-> s.result, reason |-> s.reason, artifacts |-> s.artifacts,
          metadata |-> [tools_used |-> s.metadata.tools_used,
                        files_modified |-> s.metadata.files_modified,
                        tokens_used |-> s.metadata.tokens_used,
                        strategy_tags |-> s.metadata.strategy_tags],
          timestamp |-> s.timestamp])

\* The record append_judgment writes (history.py 215-222), and the one
\* append_final_result writes (260-267).
judgment_record(i) ==
    Line("object", [type |-> "judgment", iteration |-> i, is_complete |-> "false",
                    evaluations |-> <<>>, overall_reason |-> "reason",
                    suggested_next_action |-> None])
final_result_record(status, used) ==
    Line("object", [type |-> "final_result", status |-> status, iterations_used |-> used,
                    final_judgment |-> None, history_path |-> None,
                    error_message |-> None])

\* The keys _load_existing reads with data[...] (history.py 65-68).
SummaryKeys == {"iteration", "approach", "result", "reason"}

\* data.get("metadata", {}) (history.py 71-78).
NoMetadata == [none |-> None]

\* The ExecutionSummary built from a line of type summary (history.py 64-80):
\* error_type and next take their default, None.
summary_of(data) ==
    LET metadata == Get(data, "metadata", NoMetadata) IN
    ExecutionSummary(data.iteration, data.approach, data.result, data.reason,
                     Get(data, "artifacts", <<>>),
                     SummaryMetadata(Get(metadata, "tools_used", <<>>),
                                     Get(metadata, "files_modified", <<>>),
                                     None,
                                     Get(metadata, "tokens_used", None),
                                     Get(metadata, "strategy_tags", <<>>)),
                     None, Get(data, "timestamp", ""))

\* History._load_existing (history.py 42-82): empty lines and the lines
\* json.loads rejects are passed over, the latter with a warning; data.get on
\* a JSON value that is no object and data[...] on one that lacks the key
\* stand in no try block.
RECURSIVE load_summaries(_)
load_summaries(lines) ==
    IF lines = <<>> THEN Loaded(<<>>)
    ELSE LET before == load_summaries(SubSeq(lines, 1, Len(lines) - 1))
             line == lines[Len(lines)]
         IN  IF ~before.ok THEN before
             ELSE IF line.json = "blank" THEN before
             ELSE IF line.json = "invalid" THEN before
             ELSE IF line.json = "array" THEN Raises("AttributeError")
             ELSE IF Get(line.data, "type", None) # "summary" THEN before
             ELSE IF ~(SummaryKeys \subseteq DOMAIN line.data) THEN Raises("KeyError")
             ELSE Loaded(Append(before.list, summary_of(line.data)))

\* History.count and History.get_last_iteration (history.py 177-193) on the
\* list held.
count(held) == Len(held)
last_iteration(held) == IF held = <<>> THEN 0 ELSE held[Len(held)].iteration

\* A line of type summary without its approach, result and reason; a line
\* holding a JSON array.
Lacking == Line("object", [type |-> "summary", iteration |-> 1])
NotObject == Line("array", [text |-> "[]"])

\* The lines of history.jsonl tried: the three records History writes, a
\* line that is not JSON, and the two above.
HistoryLines ==
    {summary_record(s) : s \in SummariesTried}
        \cup {judgment_record(1), final_result_record("completed", 1),
              Garbage, Lacking, NotObject}

\* The files tried: up to MaxLines such lines, the last of which may have been
\* cut short while it was written.
HistoryFiles ==
    LET whole == UNION {[1..n -> HistoryLines] : n \in 0..MaxLines}
    IN  whole \cup {Append(SubSeq(f, 1, Len(f) - 1), Torn(f[Len(f)].data)) :
                        f \in {g \in whole : g # <<>> /\ g[Len(g)].json = "object"}}

HistoryFileInit ==
    /\ NoEngine
    /\ NoJudgmentAgent
    /\ jsonl \in HistoryFiles
    /\ kept = <<>>
    /\ built = FALSE
    /\ answer = NoAnswer

\* History(history_path) (history.py 32-40): the caller holds the new store,
\* none of whose writes has failed, when the constructor returns, and the one
\* it had otherwise.
HistoryNew ==
    LET made == load_summaries(jsonl) IN
    /\ built' = (built \/ made.ok)
    /\ kept' = IF made.ok THEN made.list ELSE kept
    /\ faults' = IF made.ok THEN {} ELSE faults
    /\ answer' = Reply("History", Before, kept, jsonl, made.list, made.exc)
    /\ UNCHANGED <<apart, jsonl>>

\* The write of a record, had the file been opened for writing and not for
\* appending.
write_record_truncating(record, w) ==
    /\ jsonl' = IF w = "ok" THEN <<record>> ELSE jsonl
    /\ faults' = IF w = "ok" THEN faults ELSE faults \cup {"store"}

\* The write of a record (history.py 114-119, 224-231, 269-276) that does w.
write_record(record, w) ==
    /\ jsonl' = IF w = "ok" THEN Append(jsonl, record) ELSE jsonl
    /\ faults' = IF w = "ok" THEN faults ELSE faults \cup {"store"}

\* await history.append(summary) (history.py 88-119): the summary joins
\* _summaries, then its record is written or the write raises OSError.
AppendSummary(summary) ==
    /\ built
    /\ Len(kept) < MaxLines
    /\ Len(jsonl) <= MaxLines
    /\ kept' = Append(kept, summary)
    /\ \E w \in {"ok", "OSError"}:
        /\ write_record(summary_record(summary), w)
        /\ answer' = Reply("append", <<summary>>, kept, jsonl, <<>>,
                           IF w = "ok" THEN "none" ELSE w)
    /\ UNCHANGED <<apart, built>>

\* await history.append_judgment(judgment, iteration) (history.py 195-231)
AppendJudgment(i) ==
    /\ built
    /\ Len(jsonl) <= MaxLines
    /\ \E w \in {"ok", "OSError"}:
        /\ write_record(judgment_record(i), w)
        /\ answer' = Reply("append_judgment", <<i>>, kept, jsonl, <<>>,
                           IF w = "ok" THEN "none" ELSE w)
    /\ UNCHANGED <<apart, kept, built>>

\* await history.append_final_result(result) (history.py 233-276)
AppendFinalResult(status) ==
    /\ built
    /\ Len(jsonl) <= MaxLines
    /\ \E w \in {"ok", "OSError"}:
        /\ write_record(final_result_record(status, last_iteration(kept)), w)
        /\ answer' = Reply("append_final_result", <<status>>, kept, jsonl, <<>>,
                           IF w = "ok" THEN "none" ELSE w)
    /\ UNCHANGED <<apart, kept, built>>

HistoryFileNext ==
    \/ HistoryNew
    \/ \E summary \in SummariesTried: AppendSummary(summary)
    \/ AppendJudgment(1)
    \/ AppendFinalResult("completed")

SpecHistoryFile == HistoryFileInit /\ [][HistoryFileNext]_vars

\* ------------------------------------------- the history context of a call
\* The text handed to Execution as history_context: the sentinel, or one line
\* "[Iteration n] ..." per summary, kept as the iteration numbers of the lines.
NoHistoryText == [sentinel |-> TRUE, lines |-> <<>>]
Lines(list) == [sentinel |-> FALSE, lines |-> list]

\* History.get_context_string(limit) (history.py 157-175) on the list held.
get_context_string(held, limit) ==
    LET recent == get_recent(held, limit)
    IN  IF recent = <<>> THEN NoHistoryText ELSE Lines(recent)

\* Engine._get_history_context (engine.py 135-158): the History's context
\* string if a History is attached, else the last summaries of Engine._history;
\* the window is config.history_context_size in both.
get_history_context ==
    IF history_store
    THEN get_context_string(summaries, config_history_context_size)
    ELSE IF history = <<>> THEN NoHistoryText
         ELSE Lines(slice_from(history, 0 - config_history_context_size))

\* The history_context of the ExecutionContext built at line 362 for the
\* Execution call in flight: nothing it is read from changes before the call
\* returns.
history_context == get_history_context

\* Runs whose contexts are read: an Engine without Intake and KnowledgeBase,
\* with or without a History over the log of an earlier run of up to MaxPrior
\* iterations, and the two window sizes drawn from 1..MaxWindow.
ContextInit ==
    /\ intake_agent = FALSE
    /\ history_store \in BOOLEAN
    /\ knowledge_base = FALSE
    /\ allowed_tools = {}
    /\ NoJudgmentAgent
    /\ config_history_context_size \in 1..MaxWindow
    /\ task_history_context_size \in 1..MaxWindow
    /\ max_iter = 0
    /\ on_progress = FALSE
    /\ resume = FALSE
    /\ current_iteration = 0
    /\ is_running = FALSE
    /\ cancelled = FALSE
    /\ start_iteration = 1
    /\ history = <<>>
    /\ knowledge = 0
    /\ pc = "idle"
    /\ iteration = 0
    /\ final_judgment = NoJudgment
    /\ intake_result = NoIntake
    /\ knowledge_list = 0
    /\ exc = "none"
    /\ \E n \in 0..MaxPrior:
        /\ log = IF history_store THEN PriorLog(n) ELSE <<>>
        /\ summaries = load_existing(log)
    /\ kb_items = 0
    /\ kb_file = 0
    /\ result = NoResult
    /\ raised = "none"
    /\ execCalls = <<>>
    /\ events = <<>>
    /\ judged = <<>>
    /\ faults = {}
    /\ log_start = 0
    /\ cancel_at = NoCancel
    /\ trace = <<>>
    /\ yielded = <<>>
    /\ answer = NoAnswer
    /\ script = <<>>
    /\ first = NoFirst
    /\ jsonl = <<>>
    /\ kept = <<>>
    /\ built = FALSE

ContextNext ==
    \/ \E budget \in 1..MaxBudget, res \in BOOLEAN: Run(budget, FALSE, res)
    \/ EmitTaskStart
    \/ IterationStart
    \/ ExecutionReturn
    \/ ExecutionRaise
    \/ EmitExecutionComplete
    \/ SaveOutput
    \/ SummaryReturn(0)
    \/ SummaryRaise
    \/ PersistSummary
    \/ PersistKnowledge
    \/ \E j \in JudgmentsTried: JudgmentReturn(j.is_complete, j.evaluations)
    \/ JudgmentRaise
    \/ EmitJudgmentComplete
    \/ EmitIterationEnd
    \/ PersistJudgment
    \/ Completed
    \/ CompletedSave
    \/ MaxIterations
    \/ MaxIterationsSave
    \/ Except
    \/ ExceptSave

SpecContext == ContextInit /\ [][ContextNext]_vars

\* ------------------------------------------------- a run and its resumption
\* An Engine with a History over a history.jsonl that does not exist yet.
ResumeInit ==
    /\ intake_agent = FALSE
    /\ history_store = TRUE
    /\ knowledge_base = FALSE
    /\ allowed_tools = {}
    /\ NoJudgmentAgent
    /\ config_history_context_size = DefaultContextSize
    /\ task_history_context_size = DefaultContextSize
    /\ max_iter = 0
    /\ on_progress = FALSE
    /\ resume = FALSE
    /\ current_iteration = 0
    /\ is_running = FALSE
    /\ cancelled = FALSE
    /\ start_iteration = 1
    /\ history = <<>>
    /\ knowledge = 0
    /\ pc = "idle"
    /\ iteration = 0
    /\ final_judgment = NoJudgment
    /\ intake_result = NoIntake
    /\ knowledge_list = 0
    /\ exc = "none"
    /\ log = <<>>
    /\ summaries = <<>>
    /\ kb_items = 0
    /\ kb_file = 0
    /\ result = NoResult
    /\ raised = "none"
    /\ execCalls = <<>>
    /\ events = <<>>
    /\ judged = <<>>
    /\ faults = {}
    /\ log_start = 0
    /\ cancel_at = NoCancel
    /\ trace = <<>>
    /\ yielded = <<>>
    /\ answer = NoAnswer
    /\ script = <<>>
    /\ first = NoFirst
    /\ jsonl = <<>>
    /\ kept = <<>>
    /\ built = FALSE

\* What is kept of the earlier run: how it ended.
Earlier == [made |-> TRUE, ended |-> pc, status |-> result.status]

\* Engine.__init__ (lines 81-116) and History.__init__ once more, in a new
\* process, over the history.jsonl the earlier run left.
Restart ==
    /\ pc \in {"returned", "raised"}
    /\ ~first.made
    /\ first' = Earlier
    /\ max_iter' = 0
    /\ on_progress' = FALSE
    /\ resume' = FALSE
    /\ current_iteration' = 0
    /\ is_running' = FALSE
    /\ cancelled' = FALSE
    /\ start_iteration' = 1
    /\ history' = <<>>
    /\ knowledge' = 0
    /\ pc' = "idle"
    /\ iteration' = 0
    /\ final_judgment' = NoJudgment
    /\ intake_result' = NoIntake
    /\ knowledge_list' = 0
    /\ exc' = "none"
    /\ summaries' = load_existing(log)
    /\ result' = NoResult
    /\ raised' = "none"
    /\ execCalls' = <<>>
    /\ events' = <<>>
    /\ judged' = <<>>
    /\ faults' = {}
    /\ log_start' = Len(log)
    /\ cancel_at' = NoCancel
    /\ trace' = <<>>
    /\ script' = <<>>
    /\ UNCHANGED <<judge, ctor, task_history_context_size, yielded, answer, direct, log,
                   kb_items, kb_file>>

ResumeNext ==
    \/ ContextNext
    \/ Restart

SpecResume == ResumeInit /\ [][ResumeNext]_vars

\* ------------------------------------------------ history/queries.py
\* The rows the queries select: FROM read_ndjson_auto(path) WHERE type =
\* 'summary', as iteration numbers in file order.
summary_rows(lines) ==
    LET rows == SelectSeq(lines, LAMBDA r : r.type = "summary")
    IN  [k \in 1..Len(rows) |-> rows[k].iteration]

\* queries.count_iterations (queries.py 163-198): SELECT COUNT(*), 0 for a
\* file that does not exist or cannot be queried.
count_iterations(lines) == Len(summary_rows(lines))

\* queries.get_last_iteration (queries.py 201-235): SELECT MAX(iteration),
\* 0 when there is no row.
query_get_last_iteration(lines) ==
    LET rows == summary_rows(lines)
    IN  IF rows = <<>> THEN 0
        ELSE CHOOSE m \in {rows[k] : k \in DOMAIN rows} :
                 \A k \in DOMAIN rows : rows[k] <= m

\* queries.query_history_context (queries.py 18-82): the `limit` rows of
\* greatest iteration (ROW_NUMBER() OVER (ORDER BY iteration DESC), rn <=
\* limit), returned ORDER BY iteration ASC.
query_history_context(lines, limit) ==
    LET ranked == SortSeq(summary_rows(lines), LAMBDA a, b : a < b)
        cut == IF Len(ranked) - limit > 0 THEN Len(ranked) - limit ELSE 0
    IN  SubSeq(ranked, cut + 1, Len(ranked))

\* ------------------------------------- the stores, read as well as written
\* History.get_failures(limit, exclude_iterations) (history.py 137-155) on the
\* list held: failures[-limit:] of the failed summaries not excluded.
get_failures(held, limit, exclude) ==
    LET failures == SelectSeq(held, LAMBDA s : s.result = "failure" /\ s.iteration \notin exclude)
    IN  slice_from(failures, 0 - limit)

\* await history.get_recent(limit)
GetRecent(limit) ==
    /\ built
    /\ answer' = Reply("get_recent", <<limit>>, kept, jsonl, get_recent(kept, limit), "none")
    /\ UNCHANGED <<apart, direct, faults>>

\* await history.get_failures(limit, exclude_iterations)
GetFailures(limit, exclude) ==
    /\ built
    /\ answer' = Reply("get_failures", <<limit>>, kept, jsonl,
                       get_failures(kept, limit, exclude), "none")
    /\ UNCHANGED <<apart, direct, faults>>

\* await history.get_context_string(limit)
GetContextString(limit) ==
    /\ built
    /\ answer' = Reply("get_context_string", <<limit>>, kept, jsonl,
                       get_context_string(kept, limit).lines, "none")
    /\ UNCHANGED <<apart, direct, faults>>

\* await history.count()
Count ==
    /\ built
    /\ answer' = Reply("count", <<>>, kept, jsonl, <<count(kept)>>, "none")
    /\ UNCHANGED <<apart, direct, faults>>

\* await history.get_last_iteration()
GetLastIteration ==
    /\ built
    /\ answer' = Reply("get_last_iteration", <<>>, kept, jsonl, <<last_iteration(kept)>>, "none")
    /\ UNCHANGED <<apart, direct, faults>>

\* The files History wrote earlier: up to MaxLines records of summaries and
\* judgments.
WrittenFiles ==
    LET records == {summary_record(s) : s \in SummariesTried} \cup {judgment_record(1)}
    IN  UNION {[1..n -> records] : n \in 0..MaxLines}

HistoryStoreInit ==
    /\ NoEngine
    /\ NoJudgmentAgent
    /\ jsonl \in WrittenFiles
    /\ kept = <<>>
    /\ built = FALSE
    /\ answer = NoAnswer

\* A History made of a file, written to and read.
HistoryStoreNext ==
    \/ HistoryNew
    \/ \E summary \in SummariesTried: AppendSummary(summary)
    \/ AppendJudgment(1)
    \/ AppendFinalResult("completed")
    \/ \E limit \in 1..MaxLines: GetRecent(limit)
    \/ \E limit \in 1..MaxLines, exclude \in {{}, {2}}: GetFailures(limit, exclude)
    \/ \E limit \in 1..MaxLines: GetContextString(limit)
    \/ Count
    \/ GetLastIteration

SpecHistoryStore == HistoryStoreInit /\ [][HistoryStoreNext]_vars

\* KnowledgeBase.query(type_filter, category_filter, limit) (knowledge_base.py
\* 107-130) on the items held: results[-limit:] of the items the filters let
\* through.
query(items, type_filter, category_filter, limit) ==
    LET of_type == IF type_filter # None
                   THEN SelectSeq(items, LAMBDA k : k.type = type_filter)
                   ELSE items
        results == IF category_filter # None
                   THEN SelectSeq(of_type, LAMBDA k : k.category = category_filter)
                   ELSE of_type
    IN  slice_from(results, 0 - limit)

\* await kb.query(type_filter, category_filter, limit)
Query(type_filter, category_filter, limit) ==
    /\ built
    /\ answer' = Reply("query", <<type_filter, category_filter>>, kept, jsonl,
                       query(kept, type_filter, category_filter, limit), "none")
    /\ UNCHANGED <<apart, direct, faults>>

\* A KnowledgeBase made of a file, written to and read.
KnowledgeStoreNext ==
    \/ KnowledgeBaseNew
    \/ \E item \in KnowledgeTried: Add(item)
    \/ \E items \in UNION {[1..n -> KnowledgeTried] : n \in 0..MaxMany}: AddMany(items)
    \/ \E limit \in {<<>>} \cup {<<n>> : n \in 1..MaxItems}: GetAll(limit)
    \/ \E type_filter \in {None, "lesson"}, category_filter \in {None, "general"},
          limit \in 1..MaxItems: Query(type_filter, category_filter, limit)

SpecKnowledgeStore == KnowledgeBaseInit /\ [][KnowledgeStoreNext]_vars

\* ------------------------------------------------- JudgmentAgent.run
\* What an attempt (agents/judgment.py 134-150) does: agent.run returns an
\* output, or the attempt raises an exception with one of these messages.
OutputsTried == {"complete", "incomplete"}
MessagesTried ==
    {"Command failed with exit code 1", "Failed to read from Message Reader",
     "Request timed out"}

\* The messages that hold "Command failed with exit code", and those that
\* hold "message reader" once in lower case (judgment.py 157-160).
HasExitCode == {"Command failed with exit code 1"}
HasMessageReader == {"Failed to read from Message Reader"}

\* The test of line 157, had it taken every error for a retriable one.
is_retriable_always(error_msg) == error_msg \in MessagesTried

\* The test of line 157: this is a retriable CLI error.
is_retriable(error_msg) == error_msg \in HasExitCode \/ error_msg \in HasMessageReader

\* What run let out: an output it returned, or an exception it raised.
RunReturned(output) == [how |-> "returned", what |-> output]
RunRaised(error) == [how |-> "raised", what |-> error]
NoErrorCaptured == "JudgmentAgent failed with no error captured"

\* A JudgmentAgent constructed with some max_retries (judgment.py 56-80), which
\* the constructor takes as it is given.
JudgmentAgentInit ==
    /\ NoEngine
    /\ jsonl = <<>>
    /\ kept = <<>>
    /\ built = FALSE
    /\ answer = NoAnswer
    /\ faults = {}
    /\ max_retries \in 0..MaxRetries
    /\ attempt = 0
    /\ last_error = "none"
    /\ judging = "idle"
    /\ attempts = <<>>
    /\ judgment_out = NoOutcome

\* The loop of line 133 goes on with attempt n, or range(max_retries) is
\* exhausted and lines 183-186 raise.
next_attempt(n, caught) ==
    IF n < max_retries
    THEN /\ attempt' = n
         /\ judging' = "attempt"
         /\ judgment_out' = judgment_out
    ELSE /\ attempt' = attempt
         /\ judging' = "raised"
         /\ judgment_out' = RunRaised(IF caught # "none" THEN caught ELSE NoErrorCaptured)

\* await judgment_agent.run(context): up to the first attempt.
JudgmentRun ==
    /\ judging = "idle"
    /\ last_error' = "none"
    /\ next_attempt(0, "none")
    /\ UNCHANGED <<run_and_stores, direct, answer, faults, max_retries, attempts>>

\* The attempt returns an output: run returns it (lines 149-150).
AttemptReturn(output) ==
    /\ judging = "attempt"
    /\ attempts' = Append(attempts, output)
    /\ judging' = "returned"
    /\ judgment_out' = RunReturned(output)
    /\ UNCHANGED <<run_and_stores, direct, answer, faults, max_retries, attempt, last_error>>

\* The attempt raises (lines 152-181): a retriable error is slept on when
\* attempts remain and lets the loop go on otherwise, any other error is
\* raised again.
AttemptRaise(error_msg) ==
    /\ judging = "attempt"
    /\ attempts' = Append(attempts, error_msg)
    /\ last_error' = error_msg
    /\ IF is_retriable(error_msg)
       THEN LET remaining == max_retries - attempt - 1 IN
            IF remaining > 0
            THEN /\ judging' = "sleep"
                 /\ UNCHANGED <<attempt, judgment_out>>
            ELSE next_attempt(attempt + 1, error_msg)
       ELSE /\ judging' = "raised"
            /\ judgment_out' = RunRaised(error_msg)
            /\ UNCHANGED attempt
    /\ UNCHANGED <<run_and_stores, direct, answer, faults, max_retries>>

\* asyncio.sleep(retry_delay) returns, and `continue` (lines 170-171).
SleepReturn ==
    /\ judging = "sleep"
    /\ next_attempt(attempt + 1, last_error)
    /\ UNCHANGED <<run_and_stores, direct, answer, faults, max_retries, attempts, last_error>>

JudgmentAgentNext ==
    \/ JudgmentRun
    \/ \E output \in OutputsTried: AttemptReturn(output)
    \/ \E error_msg \in MessagesTried: AttemptRaise(error_msg)
    \/ SleepReturn

SpecJudgmentAgent == JudgmentAgentInit /\ [][JudgmentAgentNext]_vars

\* ================================================================== claims
\* run_iter is the entry point in use; its sequence has ended by exhaustion
\* (StopAsyncIteration) or by an exception.
InRunIter == pc \in {"iter_intake", "iter_loop", "iter_execution", "iter_summary",
                     "iter_persist_summary", "iter_persist_knowledge", "iter_yielded",
                     "iter_judgment", "iter_persist_judgment", "iter_ended",
                     "iter_raised", "iter_closed"}
IterEnded == pc = "iter_ended"
IterRaised == pc = "iter_raised"

\* run has ended, by returning or by raising.
Terminal == pc \in {"returned", "raised"}
Returned == pc = "returned"

\* Who can fail: the four collaborators, and the infrastructure run writes to
\* and reports to.
CollaboratorFaults == {"intake", "execution", "summary", "judgment"}
InfrastructureFaults == {"observer", "store", "output_md", "knowledge"}

\* The lines this run wrote to history.jsonl.
RunLog == SubSeq(log, log_start + 1, Len(log))
CountRecords(type) == Cardinality({k \in DOMAIN RunLog : RunLog[k].type = type})

\* The intake gate did not stop the run.
GatePassed == ~intake_agent \/ (intake_result.status = "accepted" /\ ToolsCompatible)

ProposedWithinAllowed == intake_result.suggested_tools \subseteq allowed_tools

\* An accepted task with P within A is past the gate only by entering the loop
\* (iteration is 0 until then), unless INTAKE_COMPLETE's callback raised.
GateLetsThrough ==
    (intake_result.status = "accepted" /\ ProposedWithinAllowed /\ iteration = 0) =>
        (pc \in {"intake_complete", "gate"} \/ exc = "observer")

StoredAtStart == load_existing(SubSeq(log, 1, log_start))

\* get_last_iteration() + 1 of the attached store on resume, 1 otherwise.
ExpectedStart ==
    IF resume /\ history_store /\ StoredAtStart # <<>>
    THEN StoredAtStart[Len(StoredAtStart)] + 1
    ELSE 1

\* C5: the iteration numbers passed to Execution in one run are start,
\* start + 1, ... without gap or repeat, start being get_last_iteration() + 1
\* of the attached store on resume (1 if it is empty) and 1 on a fresh run
\* whatever the store holds.
C5_ConsecutiveIterations ==
    pc # "idle" => \A k \in DOMAIN execCalls : execCalls[k] = ExpectedStart + k - 1

\* A resumed run over a store that holds iteration 1 calls Execution for 2.
C5_Witness ==
    /\ Returned
    /\ resume /\ history_store
    /\ StoredAtStart = <<1>>
    /\ execCalls = <<2>>

\* C5, the fresh case: a store that holds iteration 1 is ignored without resume.
C5_WitnessFresh ==
    /\ Returned
    /\ ~resume /\ history_store
    /\ StoredAtStart = <<1>>
    /\ execCalls = <<1, 2>>

\* cancel() was called while a collaborator call of iteration
\* cancel_at.iteration was in flight: its Execution call, the one CancelPoints
\* keeps (a cancel() during its Summary or Judgment call sets the same flag, read
\* at the same boundary).
CancelledInFlight == cancel_at.pc = "execution"

\* The run's log holds the summary and the judgment record of iteration i.
IterationPersisted(i) ==
    /\ \E k \in DOMAIN RunLog : RunLog[k].type = "summary" /\ RunLog[k].iteration = i
    /\ \E k \in DOMAIN RunLog : RunLog[k].type = "judgment" /\ RunLog[k].iteration = i

\* The loop stands at, or is past, the boundary check that follows iteration i.
AtNextBoundary(i) == iteration = i + 1 /\ iteration <= max_iter

\* The last line of history.jsonl is the terminal record of r.
LastRecordIs(r) == log # <<>> /\ log[Len(log)] = FinalResultRecord(r)

C7_AsStated ==
    (Returned /\ CancelledInFlight /\ faults = {}) => result.status = "cancelled"

\* Execution, Summary or Judgment raised during the iteration last handed to
\* Execution.
IterationFailed == exc \in {"execution", "summary", "judgment"}

\* C8 as stated, for the runs that return: after a failure of Execution,
\* Summary or Judgment in iteration i the result is error with a message and
\* iterations_used is the number of iterations completed before, i not
\* counted.
C8_AsStated ==
    (Returned /\ IterationFailed) =>
        /\ result.status = "error"
        /\ result.error_message # NoMessage
        /\ result.iterations_used = Len(judged)

\* C8 (amended): if Execution, Summary or Judgment raises during iteration i,
\* run returns - unless the handler's own TASK_END callback or write of the
\* terminal record fails - status error with a non-empty message and
\* iterations_used = i, the number of the failing iteration.
C8_ErrorCountsFailingIteration ==
    /\ (Returned /\ IterationFailed) =>
        /\ result.status = "error"
        /\ result.error_message # NoMessage
        /\ result.iterations_used = execCalls[Len(execCalls)]
    /\ (Terminal /\ IterationFailed /\ faults \cap InfrastructureFaults = {}) => Returned

\* Judgment raises in iteration 2, after iteration 1 was completed.
C8_Witness ==
    /\ Returned
    /\ exc = "judgment"
    /\ execCalls = <<1, 2>>
    /\ Len(judged) = 1
    /\ result.status = "error"
    /\ result.iterations_used = 2

\* C9: if every store write and every observer call succeeds, run does not
\* raise, whatever Intake, Execution, Summary and Judgment return or raise: it
\* ends by returning a LoopResult.
C9_RunNeverRaises ==
    (Terminal /\ faults \cap InfrastructureFaults = {}) =>
        /\ Returned
        /\ result # NoResult

\* Summary raised, with a store and an observer that did not fail: an error
\* result is returned.
C9_Witness ==
    /\ Returned
    /\ history_store /\ on_progress
    /\ faults = {"summary"}
    /\ result.status = "error"

\* C10 as stated: an append to history.jsonl that fails with an I/O error
\* during run leaves run as an exception, never as a returned LoopResult.
C10_AsStated ==
    (Terminal /\ "store" \in faults) => pc = "raised"

\* C10 (amended): a failed append is never passed over: the loop stops at once.
\* A failed append inside the loop is caught by run's handler, and run returns
\* an error LoopResult unless the handler's own TASK_END callback or terminal
\* write fails; a failed append of the handler itself leaves run as an
\* exception.
C10_FailedAppendAbortsLoop ==
    "store" \in faults =>
        /\ pc \in {"except", "except_save", "returned", "raised"}
        /\ exc # "store" => (pc = "raised" /\ raised = "store")
        /\ (exc = "store" /\ Terminal) =>
            \/ Returned /\ result.status = "error"
            \/ pc = "raised" /\ raised \in {"observer", "store"}

\* The summary append failed, the handler's terminal write succeeded: the
\* OSError has become a returned error result.
C10_Witness ==
    /\ Returned
    /\ exc = "store"
    /\ faults = {"store"}
    /\ CountRecords("summary") = 0
    /\ result.status = "error"
    /\ LastRecordIs(result)

\* The events of the trace on which the callback raised, and the last event
\* handed to the callback.
FailedEvents == {k \in DOMAIN trace : trace[k].kind = "event" /\ ~trace[k].ok}
EventIndices == {k \in DOMAIN trace : trace[k].kind = "event"}
LastEventFailed ==
    \E k \in FailedEvents : \A j \in EventIndices : j <= k
NoCallAfter(k) == \A j \in DOMAIN trace : j > k => trace[j].kind # "call"

C11_WitnessPropagates ==
    /\ pc = "raised"
    /\ raised = "observer"
    /\ Cardinality(FailedEvents) = 2
    /\ \E k \in FailedEvents : trace[k].name = "iteration_start"

\* The run got past the intake gate and reached the for statement of line 331.
EnteredLoop == iteration > 0

\* C12: a run that enters the iteration loop and returns a LoopResult, with a
\* History attached, has written exactly one final_result record; that record
\* is the last line the run wrote to history.jsonl, and it carries the status
\* and iterations_used of the returned LoopResult.
C12_OneTerminalRecordLast ==
    (Returned /\ history_store /\ EnteredLoop) =>
        /\ CountRecords("final_result") = 1
        /\ RunLog[Len(RunLog)].type = "final_result"
        /\ RunLog[Len(RunLog)].status = result.status
        /\ RunLog[Len(RunLog)].iteration = result.iterations_used
        /\ result.status \in {"completed", "max_iterations", "cancelled", "error"}

\* A run cancelled during iteration 1: two records of iteration 1, then the
\* cancelled record.
C12_Witness ==
    /\ Returned /\ history_store /\ EnteredLoop
    /\ result.status = "cancelled"
    /\ Len(RunLog) = 3
    /\ RunLog[3].status = "cancelled"
    /\ RunLog[3].iteration = 1

\* The write of the completed record failed and the handler's write of the
\* error record succeeded: still one terminal record, that of the result.
C12_WitnessAfterFailedWrite ==
    /\ Returned /\ history_store /\ EnteredLoop
    /\ \E k \in DOMAIN trace :
          trace[k].kind = "write" /\ trace[k].name = "final_result" /\ ~trace[k].ok
    /\ result.status = "error"
    /\ CountRecords("final_result") = 1

\* The calls, the returns and the appends of summary and judgment records, in
\* the order run made them.
IsStep(e) ==
    \/ e.kind \in {"call", "return"}
    \/ e.kind = "write" /\ e.name \in {"summary", "judgment"}
StepsTaken == SelectSeq(trace, IsStep)

\* The steps of iteration i in the order claimed: Execution, Summary, the
\* summary record, Judgment, the judgment record (the records only with a
\* History attached).
IterationSteps(i) ==
    Called("execution", i) \o Back("execution", i, TRUE)
    \o Called("summary", i) \o Back("summary", i, TRUE)
    \o Written(SummaryRecord(i), "ok")
    \o Called("judgment", i) \o Back("judgment", i, TRUE)
    \o Written(JudgmentRecord(NoJudgment, i), "ok")

RECURSIVE LoopSteps(_, _)
LoopSteps(from, to) ==
    IF from > to THEN <<>> ELSE IterationSteps(from) \o LoopSteps(from + 1, to)

IntakeSteps == Called("intake", 0) \o Back("intake", 0, TRUE)

\* taken is a beginning of claimed, and nothing follows a step that failed.
FollowsOrder(taken, claimed) ==
    /\ Len(taken) <= Len(claimed)
    /\ \A k \in DOMAIN taken :
          /\ taken[k].kind = claimed[k].kind
          /\ taken[k].name = claimed[k].name
          /\ taken[k].iteration = claimed[k].iteration
          /\ k < Len(taken) => taken[k].ok

\* At most one collaborator call is in flight: each call is followed by its
\* own return before anything else is called or written.
OneCallInFlightOf(steps) ==
    \A k \in DOMAIN steps :
        (steps[k].kind = "call" /\ k < Len(steps)) =>
            /\ steps[k + 1].kind = "return"
            /\ steps[k + 1].name = steps[k].name
            /\ steps[k + 1].iteration = steps[k].iteration
OneCallInFlight == OneCallInFlightOf(StepsTaken)

\* No judgment record of iteration i without an earlier summary record of i.
SummaryBeforeJudgmentIn(records) ==
    \A k \in DOMAIN records :
        records[k].type = "judgment" =>
            \E j \in 1..(k - 1) :
                records[j].type = "summary" /\ records[j].iteration = records[k].iteration
SummaryBeforeJudgment == SummaryBeforeJudgmentIn(RunLog)

IntakeCalls == Cardinality({k \in DOMAIN trace :
                               trace[k].kind = "call" /\ trace[k].name = "intake"})
OtherCalls == {k \in DOMAIN trace : trace[k].kind = "call" /\ trace[k].name # "intake"}

\* C13 as stated: Intake is invoked exactly once, before any other
\* collaborator; then each iteration goes Execution call, Summary call, summary
\* record, Judgment call, judgment record, one call in flight at a time, and no
\* judgment record of iteration i is written without a summary record of i
\* before it.
C13_AsStated ==
    /\ (OtherCalls # {} \/ Terminal) => IntakeCalls = 1
    /\ pc # "idle" => FollowsOrder(StepsTaken, IntakeSteps \o LoopSteps(ExpectedStart, max_iter))
    /\ OneCallInFlight
    /\ SummaryBeforeJudgment

\* C13 (amended): Intake is invoked at most once and before any other
\* collaborator - exactly once when an intake agent is configured and the
\* TASK_START callback does not raise, never when none is configured; the rest
\* as stated.
C13_StrictSequence ==
    /\ IntakeCalls <= 1
    /\ (intake_agent /\ \A k \in FailedEvents : trace[k].name # "task_start") =>
          ((OtherCalls # {} \/ Terminal) => IntakeCalls = 1)
    /\ ~intake_agent => IntakeCalls = 0
    /\ pc # "idle" =>
          FollowsOrder(StepsTaken,
                       (IF intake_agent THEN IntakeSteps ELSE <<>>)
                       \o LoopSteps(ExpectedStart, max_iter))
    /\ OneCallInFlight
    /\ SummaryBeforeJudgment

\* Two iterations with Intake and a History: ten calls and returns and four
\* records, in the claimed order.
C13_Witness ==
    /\ Returned
    /\ intake_agent /\ history_store
    /\ ~resume
    /\ max_iter = 2
    /\ StepsTaken = IntakeSteps \o LoopSteps(1, 2)

\* C14 as stated, for the runs that have a History to persist to: a run that
\* returns completed, fresh or resumed, has iterations_used equal to the number
\* of summary records it persisted.
C14_AsStated ==
    (Returned /\ result.status = "completed" /\ history_store) =>
        result.iterations_used = CountRecords("summary")

\* C14 (amended): a run that returns completed with a History attached has
\* iterations_used equal to the number of its last iteration: the count of
\* summary records it persisted for a fresh run, that count plus the last
\* iteration the store held when a resumed run began.
C14_IterationsUsedIsLastIteration ==
    (Returned /\ result.status = "completed" /\ history_store) =>
        /\ result.iterations_used = (ExpectedStart - 1) + CountRecords("summary")
        /\ ~resume => result.iterations_used = CountRecords("summary")
        /\ result.iterations_used = get_last_iteration

\* A resumed run over a store that held iteration 1 completes in iteration 2:
\* one summary record written, iterations_used = 2.
C14_Witness ==
    /\ Returned /\ result.status = "completed"
    /\ history_store /\ resume
    /\ StoredAtStart = <<1>>
    /\ CountRecords("summary") = 1
    /\ result.iterations_used = 2

\* C15 as stated: whenever run returns max_iterations - fresh or resumed, a
\* resume whose last persisted iteration equals or exceeds the budget included
\* - iterations_used is the budget and final_judgment is present and is the
\* judgment of the last iteration.
C15_AsStated ==
    (Returned /\ result.status = "max_iterations") =>
        /\ result.iterations_used = max_iter
        /\ result.final_judgment # NoJudgment
        /\ judged # <<>>
        /\ result.final_judgment = judged[Len(judged)].judgment

\* C15 (amended): whenever run returns max_iterations, iterations_used is the
\* budget.  If the loop ran at least one iteration (a fresh run, or a resume
\* whose last persisted iteration is below the budget), final_judgment is the
\* judgment of iteration budget, which is incomplete; on a resume whose last
\* persisted iteration equals or exceeds the budget no collaborator of the
\* loop is called and final_judgment is absent.
C15_MaxIterationsResult ==
    (Returned /\ result.status = "max_iterations") =>
        /\ result.iterations_used = max_iter
        /\ IF ExpectedStart <= max_iter
           THEN /\ judged # <<>>
                /\ judged[Len(judged)].iteration = max_iter
                /\ result.final_judgment = judged[Len(judged)].judgment
                /\ ~result.final_judgment.is_complete
           ELSE /\ result.final_judgment = NoJudgment
                /\ execCalls = <<>>
                /\ judged = <<>>

\* A resume with budget 1 over a store that holds iteration 1: max_iterations
\* without any iteration and without a judgment.
C15_Witness ==
    /\ Returned /\ result.status = "max_iterations"
    /\ resume /\ history_store
    /\ StoredAtStart = <<1>>
    /\ max_iter = 1
    /\ result.iterations_used = 1
    /\ result.final_judgment = NoJudgment

\* A resume with budget 2 over the same store: iteration 2 runs and its
\* judgment is the final one.
C15_WitnessResumedBelowBudget ==
    /\ Returned /\ result.status = "max_iterations"
    /\ resume /\ history_store
    /\ StoredAtStart = <<1>>
    /\ max_iter = 2
    /\ execCalls = <<2>>
    /\ result.final_judgment = judged[1].judgment

\* The arguments a LoopResult can be constructed from, as far as the validator
\* reads them.
CandidateResults ==
    {LoopResult(st, 0, fj, NoIntake, msg) :
        st \in LoopStatus,
        fj \in {NoJudgment, JudgmentResult(TRUE, <<TRUE>>, 1)},
        msg \in {NoMessage, EmptyMessage, Message("exception", {}, {})}}

\* The two conditions of C16, in the claim's words.
HasErrorMessage(r) == r.error_message # NoMessage /\ r.error_message # EmptyMessage
HasFinalJudgment(r) == r.final_judgment # NoJudgment

\* C16: every LoopResult run returns has a non-empty error_message if its
\* status is error and a final_judgment if its status is completed; and the
\* construction of a LoopResult that breaks either condition fails validation.
C16_ReturnedResultsAreValid ==
    /\ Returned =>
        /\ result.status \in LoopStatus
        /\ result.status = "error" => HasErrorMessage(result)
        /\ result.status = "completed" => HasFinalJudgment(result)
    /\ \A r \in CandidateResults :
        ((r.status = "error" /\ ~HasErrorMessage(r))
            \/ (r.status = "completed" /\ ~HasFinalJudgment(r)))
        => ~validate_status_fields(r)

\* A rejected task: an error result that carries the rejection message.
C16_Witness ==
    /\ Returned
    /\ result.status = "error"
    /\ result.error_message = Message("rejected", {}, {})

\* A completed run: the result carries the judgment that completed it.
C16_WitnessCompleted ==
    /\ Returned
    /\ result.status = "completed"
    /\ result.final_judgment = judged[Len(judged)].judgment
    /\ result.final_judgment.is_complete

\* Every list of is_met flags of at most MaxCriteria evaluations.
FlagLists == UNION {[1..n -> BOOLEAN] : n \in 0..MaxCriteria}

\* C17: for every combination of is_complete and is_met flags, the
\* construction of a JudgmentResult succeeds if and only if is_complete is
\* False or every is_met is True; hence no run returns completed with a
\* final_judgment that holds an unmet criterion.
C17_CompleteMeansAllMet ==
    /\ \A is_complete \in BOOLEAN, evaluations \in FlagLists :
          validate_consistency(is_complete, evaluations)
            <=> (~is_complete \/ \A k \in DOMAIN evaluations : evaluations[k])
    /\ (Returned /\ result.status = "completed") =>
          /\ result.final_judgment.is_complete
          /\ \A k \in DOMAIN result.final_judgment.evaluations :
                result.final_judgment.evaluations[k]

\* A completed run whose final judgment holds one evaluation, which is met.
C17_Witness ==
    /\ Returned /\ result.status = "completed"
    /\ result.final_judgment.is_complete
    /\ result.final_judgment.evaluations = <<TRUE>>
    /\ ~validate_consistency(TRUE, <<TRUE, FALSE>>)
    /\ validate_consistency(FALSE, <<TRUE, FALSE>>)

\* The judgment that ends the loop has been returned: a complete one, or that
\* of the last budgeted iteration.
LastJudgmentReturned ==
    /\ judged # <<>>
    /\ \/ judged[Len(judged)].judgment.is_complete
       \/ judged[Len(judged)].iteration = max_iter

\* What C19 says of the summaries: one per executed iteration, in iteration
\* order, each persisted before it is yielded, never more than the budget; no
\* iteration is executed after a complete judgment; _is_running is False once
\* the sequence has ended.
YieldsAsClaimed ==
    /\ \A k \in DOMAIN yielded : yielded[k] = k
    /\ Len(execCalls) - Len(yielded) \in {0, 1}
    /\ IterEnded => Len(yielded) = Len(execCalls)
    /\ history_store =>
          \A k \in DOMAIN yielded :
              \E n \in DOMAIN RunLog :
                  RunLog[n].type = "summary" /\ RunLog[n].iteration = yielded[k]
    /\ Len(yielded) <= max_iter
    /\ \A k \in DOMAIN judged :
          judged[k].judgment.is_complete =>
              \A e \in DOMAIN execCalls : execCalls[e] <= judged[k].iteration
    /\ (IterEnded \/ IterRaised) => ~is_running

\* C19 as stated: the above, and after the first iteration whose judgment is
\* complete, or after the last budgeted iteration, the sequence ends without
\* raising.
C19_AsStated ==
    InRunIter =>
        /\ YieldsAsClaimed
        /\ (LastJudgmentReturned /\ (IterEnded \/ IterRaised)) => IterEnded

\* C19 (amended): the same, the end without raising being conditional on the
\* append of the judgment record of that iteration: if it fails, the sequence
\* ends by raising the I/O error.
C19_RunIterYields ==
    InRunIter =>
        /\ YieldsAsClaimed
        /\ (LastJudgmentReturned /\ (IterEnded \/ IterRaised)) =>
              \/ IterEnded
              \/ /\ IterRaised /\ raised = "store" /\ history_store
                 /\ trace[Len(trace)] =
                      TraceEntry("write", "judgment", judged[Len(judged)].iteration, FALSE)

\* Two iterations streamed from an Engine with a History, the second judged
\* complete.
C19_Witness ==
    /\ IterEnded
    /\ history_store
    /\ yielded = <<1, 2>>
    /\ judged[2].judgment.is_complete
    /\ CountRecords("summary") = 2
    /\ ~is_running

\* The budget of two iterations used up, no judgment complete.
C19_WitnessExhausted ==
    /\ IterEnded
    /\ max_iter = 2
    /\ yielded = <<1, 2>>
    /\ ~judged[2].judgment.is_complete
    /\ cancel_at = NoCancel

\* The iterations of a list of summaries never go down.
Ascending(list) == \A k \in 1..(Len(list) - 1) : list[k] <= list[k + 1]

\* value is the last n elements of held, in the order held has them.
LastOf(held, n, value) ==
    /\ Len(value) = n
    /\ \A k \in 1..n : value[k] = held[Len(held) - n + k]

Min(a, b) == IF a < b THEN a ELSE b

\* C20 as stated: for every History of N summaries and every limit >= 0,
\* get_recent(limit) returns exactly min(limit, N) summaries, the most recently
\* appended ones, in insertion order, which is ascending iteration order.
C20_AsStated ==
    answer.op = "get_recent" =>
        /\ LastOf(answer.held, Min(answer.limit, Len(answer.held)), answer.value)
        /\ Ascending(answer.value)

\* The part of C20 that holds of every History: get_recent(limit) returns
\* exactly min(limit, N) summaries, the most recently appended ones, in
\* insertion order, which is ascending whenever the list held is.
C20_GetRecentWindow ==
    answer.op = "get_recent" =>
        /\ LastOf(answer.held, Min(answer.limit, Len(answer.held)), answer.value)
        /\ Ascending(answer.held) => Ascending(answer.value)

\* The two most recent of three summaries.
C20_Witness ==
    /\ answer.op = "get_recent"
    /\ answer.held = <<1, 2, 3>>
    /\ answer.limit = 2
    /\ answer.value = <<2, 3>>

\* limit 0 returns nothing, a limit above N returns all N.
C20_WitnessZero ==
    /\ answer.op = "get_recent"
    /\ answer.held = <<1, 2>>
    /\ answer.limit = 0
    /\ answer.value = <<>>

\* What run did apart from handing events to the callback: its calls, their
\* returns and its appends, in program order.
IsNoEvent(e) == e.kind # "event"
NotEvents(tr) == SelectSeq(tr, IsNoEvent)

IsPrefix(a, b) == Len(a) <= Len(b) /\ \A k \in DOMAIN a : a[k] = b[k]

\* The second run asks its collaborators and its stores for the same things,
\* in the same order, as the first did.
AsksTheSame ==
    \A k \in DOMAIN script :
        k <= Len(first.script) /\ script[k].kind = first.script[k].kind

\* So far the second run has done what the first did.
DoesTheSame ==
    /\ IsPrefix(NotEvents(trace), NotEvents(first.trace))
    /\ IsPrefix(execCalls, first.execCalls)
    /\ IsPrefix(log, first.log)
    /\ kb_file <= first.kb_file

\* The second run has ended as the first did.
EndedTheSame ==
    /\ NotEvents(trace) = NotEvents(first.trace)
    /\ execCalls = first.execCalls
    /\ log = first.log
    /\ kb_file = first.kb_file
    /\ pc = first.ended
    /\ raised = first.raised
    /\ result.status = first.result.status
    /\ result.iterations_used = first.result.iterations_used

\* C18: for the same task input, initial store contents and behaviours of the
\* collaborators and the stores, a run without a callback calls the
\* collaborators in the same sequence with the same arguments, appends the
\* same records in the same order, and returns the same status and
\* iterations_used as a run whose callback never raises; it is never unable
\* to go on where that run went on.
C18_ObserverDoesNotGate ==
    first.made =>
        /\ AsksTheSame
        /\ DoesTheSame
        /\ Terminal => EndedTheSame
        /\ ~Terminal => ENABLED TwinNext

\* Both runs went through an iteration to a complete judgment, the first
\* handing events to its callback, the second fed the same script.
C18_Witness ==
    /\ first.made
    /\ Returned
    /\ result.status = "completed"
    /\ script = first.script
    /\ Len(first.trace) > Len(trace)
    /\ Len(execCalls) > 0
    /\ history_store

\* Both runs were cancelled before their first iteration.
C18_WitnessCancelled ==
    /\ first.made
    /\ Returned
    /\ result.status = "cancelled"
    /\ first.result.status = "cancelled"

\* C21 as stated: for every KnowledgeBase holding N items and every limit >= 0,
\* limit = 0 included, get_all(limit) returns exactly min(limit, N) items, the
\* most recently added ones, in insertion order; get_all() with no limit
\* returns all N items.
C21_AsStated ==
    answer.op = "get_all" =>
        IF answer.arg = <<>>
        THEN answer.value = answer.held
        ELSE LastOf(answer.held, Min(answer.arg[1], Len(answer.held)), answer.value)

\* What get_all does in C21's cases: the window is as claimed for every
\* limit >= 1 and without a limit, and limit = 0 returns all N items.
C21_GetAllWindow ==
    answer.op = "get_all" =>
        IF answer.arg = <<>> \/ answer.arg = <<0>>
        THEN answer.value = answer.held
        ELSE LastOf(answer.held, Min(answer.arg[1], Len(answer.held)), answer.value)

\* get_all(0) on a KnowledgeBase of two items returns both.
C21_WitnessZero ==
    /\ answer.op = "get_all"
    /\ answer.arg = <<0>>
    /\ Len(answer.held) = 2
    /\ answer.value = answer.held

\* The items of the lines of a knowledge.jsonl that are well formed, in file
\* order, as a KnowledgeBase holds them once loaded.
IsItemLine(line) == line.json = "object" /\ KnowledgeKeys \subseteq DOMAIN line.data
WellFormedItems(lines) ==
    LET good == SelectSeq(lines, IsItemLine)
    IN  [k \in 1..Len(good) |-> knowledge_of(good[k].data)]

\* Some line of the file is not JSON: cut short, or never JSON.
HasMalformedLine(lines) == \E k \in DOMAIN lines : lines[k].json = "invalid"

\* C24 as stated: constructing a KnowledgeBase over a file that contains a
\* malformed line or a partially written trailing line does not fail; the
\* malformed line is skipped and every well-formed item is loaded in file order.
C24_AsStated ==
    (answer.op = "KnowledgeBase" /\ HasMalformedLine(answer.lines)) =>
        /\ answer.exc = "none"
        /\ answer.value = WellFormedItems(answer.lines)

\* What the constructor does in C24's cases: it raises json.JSONDecodeError at
\* the first malformed line and no store is made; over a file without one it
\* loads every item in file order, empty lines passed over.
C24_MalformedLineFailsLoad ==
    answer.op = "KnowledgeBase" =>
        IF HasMalformedLine(answer.lines)
        THEN answer.exc = "JSONDecodeError" /\ answer.value = <<>>
        ELSE answer.exc = "none" /\ answer.value = WellFormedItems(answer.lines)

\* A file of one item followed by a line cut short: the constructor raises.
C24_WitnessTorn ==
    /\ answer.op = "KnowledgeBase"
    /\ Len(answer.lines) = 2
    /\ IsItemLine(answer.lines[1])
    /\ answer.lines[2] \in {Torn(write_item(k).data) : k \in KnowledgeTried}
    /\ answer.exc = "JSONDecodeError"
    /\ ~built

\* The fields of the items of a list that _write_item stores, item by item.
Stored(list) == [k \in DOMAIN list |-> write_item(list[k]).data]

\* add_many was interrupted: a write raised OSError or the process died.
Interrupted == answer.op = "add_many" /\ answer.exc \in {"OSError", "crash"}

\* The file is what it was before the call, followed by the lines of the
\* first n items handed to it, in order.
FirstWritten(n) ==
    jsonl = answer.lines \o [k \in 1..n |-> write_item(answer.arg[k])]

\* C25 as stated: if add_many of M items is interrupted after N item writes
\* have succeeded, the file is its previous content followed by exactly the
\* first N items in order, and a KnowledgeBase reloaded from it returns the
\* previous items (those of the previous content) followed by those N items.
C25_AsStated ==
    Interrupted =>
        LET n == answer.value[1]
            again == load_knowledge(jsonl)
            previous == load_knowledge(answer.lines)
        IN  /\ FirstWritten(n)
            /\ again.ok
            /\ again.list = previous.list \o SubSeq(answer.arg, 1, n)

\* C25 (amended): the same, the reloaded items being equal to the previous
\* items and those N items in the fields the file stores (type, category,
\* content, source_task, confidence, example_file).
C25_InterruptedAddManyKeepsFirstN ==
    Interrupted =>
        LET n == answer.value[1]
            again == load_knowledge(jsonl)
            previous == load_knowledge(answer.lines)
        IN  /\ FirstWritten(n)
            /\ again.ok
            /\ Len(again.list) = Len(previous.list) + n
            /\ Stored(again.list) = Stored(previous.list \o SubSeq(answer.arg, 1, n))

\* add_many of two items on a store of one item, the second write failing.
C25_Witness ==
    /\ answer.op = "add_many"
    /\ answer.exc = "OSError"
    /\ Len(answer.arg) = 2
    /\ answer.value = <<1>>
    /\ Len(answer.held) = 1
    /\ Len(jsonl) = Len(answer.lines) + 1
    /\ Len(kept) = 3

\* add_many of two items that dies before the first write.
C25_WitnessCrash ==
    /\ answer.op = "add_many"
    /\ answer.exc = "crash"
    /\ Len(answer.arg) = 2
    /\ answer.value = <<0>>
    /\ jsonl = answer.lines
    /\ ~built

\* A History was constructed over the file of a History the caller held and
\* none of whose writes had failed.
Reloaded == answer.op = "History" /\ answer.arg.store /\ ~answer.arg.failed

\* The metadata a summary record stores (history.py 105-110).
StoredMetadata(m) ==
    [tools_used |-> m.tools_used, files_modified |-> m.files_modified,
     tokens_used |-> m.tokens_used, strategy_tags |-> m.strategy_tags]

\* Two summaries are equal in iteration, approach, outcome, reason and
\* artifacts.
SameContent(a, b) ==
    /\ a.iteration = b.iteration
    /\ a.approach = b.approach
    /\ a.result = b.result
    /\ a.reason = b.reason
    /\ a.artifacts = b.artifacts

\* C22 as stated: for any sequence of summaries appended to a History,
\* interleaved with judgment and final_result records, a new History on the
\* same file holds the same summaries in the same order, equal in iteration,
\* approach, outcome, reason, artifacts and metadata; judgment and
\* final_result records are ignored, so count() and get_last_iteration() are
\* the same before and after the reload.
C22_AsStated ==
    Reloaded =>
        /\ answer.exc = "none"
        /\ Len(answer.value) = Len(answer.held)
        /\ \A k \in DOMAIN answer.held :
            /\ SameContent(answer.value[k], answer.held[k])
            /\ answer.value[k].metadata = answer.held[k].metadata
        /\ count(answer.value) = count(answer.held)
        /\ last_iteration(answer.value) = last_iteration(answer.held)

\* C22 (amended): the same, the metadata being equal in the four fields the
\* record stores (tools_used, files_modified, tokens_used, strategy_tags) and
\* the timestamp being equal too; error_type comes back as None.
C22_ReloadYieldsAppendedSummaries ==
    Reloaded =>
        /\ answer.exc = "none"
        /\ Len(answer.value) = Len(answer.held)
        /\ \A k \in DOMAIN answer.held :
            /\ SameContent(answer.value[k], answer.held[k])
            /\ StoredMetadata(answer.value[k].metadata) = StoredMetadata(answer.held[k].metadata)
            /\ answer.value[k].metadata.error_type = None
            /\ answer.value[k].timestamp = answer.held[k].timestamp
        /\ count(answer.value) = count(answer.held)
        /\ last_iteration(answer.value) = last_iteration(answer.held)

\* A reload after the append of a summary that names an error type, with a
\* judgment and a final_result record in the file.
C22_Witness ==
    /\ Reloaded
    /\ Len(answer.held) = 2
    /\ answer.held[2].metadata.error_type = "timeout"
    /\ answer.value[2].metadata.error_type = None
    /\ \E k \in DOMAIN jsonl : jsonl[k] = judgment_record(1)
    /\ last_iteration(answer.value) = 2

\* The summaries of the lines of a history.jsonl that are well-formed summary
\* records, in file order, as a History holds them once loaded.
IsSummaryLine(line) ==
    /\ line.json = "object"
    /\ Get(line.data, "type", None) = "summary"
    /\ SummaryKeys \subseteq DOMAIN line.data
WellFormedSummaries(lines) ==
    LET good == SelectSeq(lines, IsSummaryLine)
    IN  [k \in 1..Len(good) |-> summary_of(good[k].data)]

\* The line is JSON, but no object or a summary without a required field.
IsBrokenRecord(line) ==
    \/ line.json = "array"
    \/ /\ line.json = "object"
       /\ Get(line.data, "type", None) = "summary"
       /\ ~(SummaryKeys \subseteq DOMAIN line.data)

\* C23 as stated: constructing a History over any file content never fails;
\* every line that is not a well-formed summary record (invalid JSON, a
\* partially written trailing line, a line of type summary that lacks required
\* fields) is skipped, and all well-formed summary lines are loaded in file
\* order.
C23_AsStated ==
    answer.op = "History" =>
        /\ answer.exc = "none"
        /\ answer.value = WellFormedSummaries(answer.lines)

\* What the constructor does in C23's cases: lines that are not JSON, the one
\* cut short included, and records of other types are skipped and the
\* well-formed summaries loaded in file order, unless some line is JSON but no
\* object or a summary without a required field: then the constructor raises
\* and no History is made.
C23_LoadSkipsLinesThatAreNotJson ==
    answer.op = "History" =>
        IF \E k \in DOMAIN answer.lines : IsBrokenRecord(answer.lines[k])
        THEN answer.exc \in {"KeyError", "AttributeError"} /\ answer.value = <<>>
        ELSE answer.exc = "none" /\ answer.value = WellFormedSummaries(answer.lines)

\* A file of one summary followed by a summary line without its approach:
\* the constructor raises KeyError.
C23_WitnessLacking ==
    /\ answer.op = "History"
    /\ Len(answer.lines) = 2
    /\ IsSummaryLine(answer.lines[1])
    /\ answer.lines[2] = Lacking
    /\ answer.exc = "KeyError"
    /\ ~built

\* A file of one summary followed by a line cut short: the line is skipped.
C23_WitnessTorn ==
    /\ answer.op = "History"
    /\ Len(answer.lines) = 2
    /\ IsSummaryLine(answer.lines[1])
    /\ answer.lines[2] \in {Torn(summary_record(s).data) : s \in SummariesTried}
    /\ answer.exc = "none"
    /\ Len(answer.value) = 1

\* count(), get_last_iteration() and the content of the summaries a History
\* holds are those of the History a fresh constructor call would make now.
AsFreshHistory ==
    LET fresh == load_summaries(jsonl) IN
    /\ fresh.ok
    /\ count(kept) = count(fresh.list)
    /\ last_iteration(kept) = last_iteration(fresh.list)
    /\ \A k \in DOMAIN kept : SameContent(kept[k], fresh.list[k])

\* C26 as stated, for a History: after any sequence of append calls, those that
\* fail with an I/O error included, the in-memory list (and so count(),
\* get_last_iteration() and the context windows) equals what a fresh store
\* constructed from the file would contain, and a failed append leaves the
\* in-memory state unchanged.
C26_AsStated ==
    built =>
        /\ AsFreshHistory
        /\ (answer.op = "append" /\ answer.exc = "OSError") => kept = answer.held

\* What holds in C26's cases: the list is that of a fresh History as long as no
\* write of the store has failed; an append whose write fails leaves its
\* summary in the list all the same, one more than the file holds.
C26_FailedAppendStaysInMemory ==
    built =>
        /\ faults = {} => AsFreshHistory
        /\ (answer.op = "append" /\ answer.exc = "OSError") =>
            /\ kept = answer.held \o answer.arg
            /\ jsonl = answer.lines
            /\ count(kept) > count(load_summaries(jsonl).list)

\* The same for a KnowledgeBase: after a failed add the item is in _items and
\* not in the file.
C26_FailedAddStaysInMemory ==
    built =>
        /\ faults = {} => Stored(kept) = Stored(load_knowledge(jsonl).list)
        /\ (answer.op = "add" /\ answer.exc = "OSError") =>
            /\ kept = answer.held \o answer.arg
            /\ jsonl = answer.lines
            /\ Len(kept) > Len(load_knowledge(jsonl).list)

\* An append on a History over an empty file whose write fails.
C26_WitnessFailedAppend ==
    /\ built
    /\ answer.op = "append"
    /\ answer.exc = "OSError"
    /\ answer.held = <<>>
    /\ jsonl = <<>>
    /\ count(kept) = 1
    /\ last_iteration(kept) = 2

\* The places of the trace where the callback was handed the event name of
\* iteration i, and where a record of that type and iteration was written.
SeenAt(name, i) ==
    {k \in DOMAIN trace :
        trace[k].kind = "event" /\ trace[k].name = name /\ trace[k].iteration = i}
WrittenAt(type, i) ==
    {k \in DOMAIN trace :
        trace[k].kind = "write" /\ trace[k].name = type /\ trace[k].iteration = i /\ trace[k].ok}

\* C27 as stated: for every iteration the judgment record is persisted before
\* judgment_complete is emitted, and judgment_complete is emitted before
\* iteration_end; whenever an observer sees judgment_complete for iteration i
\* the log already contains the judgment record of iteration i.
C27_AsStated ==
    (on_progress /\ history_store) =>
        \A i \in 1..MaxBudget + MaxStored :
            /\ \A e \in SeenAt("judgment_complete", i) :
                \E w \in WrittenAt("judgment", i) : w < e
            /\ \A e \in SeenAt("iteration_end", i) :
                \E j \in SeenAt("judgment_complete", i) : j < e

\* The last thing run did, a call that has returned: the callback was handed
\* the event name, or a record of that type was written.
LastWasEvent(name) ==
    /\ trace # <<>>
    /\ trace[Len(trace)].kind = "event"
    /\ trace[Len(trace)].name = name
LastWasWrite(type) ==
    /\ trace # <<>>
    /\ trace[Len(trace)].kind = "write"
    /\ trace[Len(trace)].name = type
    /\ trace[Len(trace)].ok

\* The entry of the trace back places before the last is the event name of
\* iteration i, and the callback returned from it.
EventBefore(back, name, i) ==
    /\ Len(trace) > back
    /\ trace[Len(trace) - back] = TraceEntry("event", name, i, TRUE)

\* C27 with the order run has: for every iteration judgment_complete is emitted
\* before iteration_end and iteration_end before the judgment record is
\* persisted; when an observer sees judgment_complete or iteration_end for
\* iteration i, the judgment record of iteration i is not yet written.
C27_JudgmentPersistedAfterEvents ==
    (on_progress /\ history_store) =>
        /\ LastWasEvent("iteration_end") =>
            /\ EventBefore(1, "judgment_complete", trace[Len(trace)].iteration)
            /\ WrittenAt("judgment", trace[Len(trace)].iteration) = {}
        /\ LastWasEvent("judgment_complete") =>
            WrittenAt("judgment", trace[Len(trace)].iteration) = {}
        /\ LastWasWrite("judgment") =>
            /\ EventBefore(1, "iteration_end", trace[Len(trace)].iteration)
            /\ EventBefore(2, "judgment_complete", trace[Len(trace)].iteration)

\* The observer has seen both events of iteration 1 and the judgment record of
\* iteration 1 has been written after them.
C27_Witness ==
    /\ on_progress /\ history_store
    /\ SeenAt("judgment_complete", 1) # {}
    /\ SeenAt("iteration_end", 1) # {}
    /\ WrittenAt("judgment", 1) # {}
    /\ pc \in {"completed", "loop"}

\* The places of the trace where the callback was handed TASK_END, and where a
\* final_result record was written.
TaskEndAt == {k \in DOMAIN trace : trace[k].kind = "event" /\ trace[k].name = "task_end"}
FinalResultAt ==
    {k \in DOMAIN trace : trace[k].kind = "write" /\ trace[k].name = "final_result" /\ trace[k].ok}

\* The run went into the iteration loop and returned one of its four results.
LoopTerminated ==
    /\ Returned /\ EnteredLoop
    /\ result.status \in LoopStatus

\* C28 as stated: on every termination of the iteration loop (completed,
\* max_iterations, cancelled, error) the terminal record is persisted before
\* the task_end event is emitted, so an observer that sees task_end can rely on
\* the terminal record being in the log.
C28_AsStated ==
    (on_progress /\ history_store) =>
        /\ \A e \in TaskEndAt : EnteredLoop => \E w \in FinalResultAt : w < e
        /\ LoopTerminated => \E w \in FinalResultAt : \A e \in TaskEndAt : w < e

\* C28 with the order run has: on every termination of the iteration loop
\* (completed, max_iterations, cancelled, error) the task_end event is emitted
\* before the terminal record is persisted, so an observer that sees task_end
\* does not find the terminal record in the log yet.
C28_TerminalRecordAfterTaskEnd ==
    (on_progress /\ history_store) =>
        /\ LastWasEvent("task_end") => FinalResultAt = {}
        /\ LastWasWrite("final_result") => TaskEndAt # {}
        /\ LoopTerminated =>
            /\ LastWasWrite("final_result")
            /\ EventBefore(1, "task_end", trace[Len(trace) - 1].iteration)

\* A run that returned completed: TASK_END was handed to the callback, then the
\* completed record was written.
C28_Witness ==
    /\ on_progress /\ history_store
    /\ LoopTerminated
    /\ result.status = "completed"
    /\ TaskEndAt # {}
    /\ FinalResultAt # {}

\* A run that returned cancelled: TASK_END, then the cancelled record.
C28_WitnessCancelled ==
    /\ on_progress /\ history_store
    /\ LoopTerminated
    /\ result.status = "cancelled"
    /\ TaskEndAt # {}
    /\ FinalResultAt # {}

\* A run whose write of the completed record failed: TASK_END twice, then the
\* error record.
C28_WitnessError ==
    /\ on_progress /\ history_store
    /\ LoopTerminated
    /\ result.status = "error"
    /\ final_judgment.is_complete
    /\ Cardinality(TaskEndAt) = 2
    /\ FinalResultAt # {}

\* The four events of iteration i, in the order run emits them.
IterationEvents(i) ==
    <<ProgressEvent("iteration_start", i), ProgressEvent("execution_complete", i),
      ProgressEvent("judgment_complete", i), ProgressEvent("iteration_end", i)>>

RECURSIVE EventsOfIterations(_, _)
EventsOfIterations(from, to) ==
    IF from > to THEN <<>> ELSE IterationEvents(from) \o EventsOfIterations(from + 1, to)

\* task_start, intake_complete if Intake answered (answered = 1), the events of
\* iterations from .. last - 1 and the first upto events of iteration last.
EventsUntilEnd(answered, from, last, upto) ==
    <<ProgressEvent("task_start", 0)>>
    \o (IF answered = 1 THEN <<ProgressEvent("intake_complete", 0)>> ELSE <<>>)
    \o EventsOfIterations(from, last - 1)
    \o SubSeq(IterationEvents(last), 1, upto)

\* The events are those of a run, in order, followed by ends task_end events:
\* the iteration that was under way when the run failed has the events it got to.
EventsFollowedBy(ends) ==
    /\ Len(events) > ends
    /\ \A k \in Len(events) - ends + 1..Len(events) : events[k].event_type = "task_end"
    /\ \E answered \in 0..1, from \in 1..MaxStored + 1, last \in 0..MaxBudget, upto \in 0..4 :
        /\ answered = 1 <=> (intake_agent /\ intake_result # NoIntake)
        /\ from = start
        /\ SubSeq(events, 1, Len(events) - ends) = EventsUntilEnd(answered, from, last, upto)

\* run has ended and its observer never raised.
EndedWithObserver ==
    /\ pc \in {"returned", "raised"}
    /\ on_progress
    /\ "observer" \notin faults

\* C29 as stated: with a non-failing observer the events of any run are
\* task_start first, then intake_complete, then for each executed iteration
\* iteration_start, execution_complete, judgment_complete, iteration_end in
\* that order with that iteration's number, and exactly one task_end, which is
\* the last event of the run, also when a store write fails.  (intake_complete
\* is asked for only when Intake answered, and the iteration a failure cut
\* short may stop at any of its events.)
C29_AsStated ==
    EndedWithObserver => EventsFollowedBy(1)

\* What holds in C29's cases: the events are in the claimed order and task_end
\* is the last event; there is one task_end unless the write of the terminal
\* record failed after task_end was emitted, and then the handler emits it a
\* second time.
C29_TaskEndTwiceWhenSaveFails ==
    EndedWithObserver =>
        /\ "store" \notin faults => EventsFollowedBy(1)
        /\ EventsFollowedBy(1) \/ EventsFollowedBy(2)
        /\ EventsFollowedBy(2) => "store" \in faults

\* A run that completed in iteration 1 and whose write of the completed record
\* failed: task_end was handed to the callback twice.
C29_WitnessTwice ==
    /\ EndedWithObserver
    /\ Returned
    /\ intake_agent
    /\ final_judgment.is_complete
    /\ result.status = "error"
    /\ events = EventsUntilEnd(1, 1, 1, 4)
                \o <<ProgressEvent("task_end", 1), ProgressEvent("task_end", 1)>>

\* Execution was called in this run.
ExecutionWasCalled ==
    \E k \in DOMAIN trace : trace[k].kind = "call" /\ trace[k].name = "execution"

\* Intake answered and its answer is one on which run returns before the loop:
\* needs_clarification, rejected, or suggested tools that are not all allowed.
IntakeStops ==
    /\ intake_agent
    /\ intake_result # NoIntake
    /\ ~(intake_result.status = "accepted" /\ ToolsCompatible)

\* C30 as stated, for the run_iter side of its first two clauses: run_iter does
\* what run with resume=False and no observer does on the same input, store
\* contents and collaborator behaviours: no Execution call when Intake returns
\* needs_clarification, rejected or an incompatible tool set, and the same
\* records, the terminal record of the loop included.
C30_AsStated ==
    InRunIter =>
        /\ IntakeStops => ~ExecutionWasCalled
        /\ (IterEnded /\ history_store /\ EnteredLoop) =>
            /\ RunLog # <<>>
            /\ RunLog[Len(RunLog)].type = "final_result"

\* The last clause of C30 as stated: the sequence of run_iter ends without
\* raising where run returns a LoopResult, as run does whenever a collaborator
\* raises.
C30_EndsWithoutRaising ==
    IterRaised => raised = "store"

\* What run_iter shares with run at the gate: no Execution call after Intake
\* returned needs_clarification.
C30_ClarificationStopsRunIter ==
    (InRunIter /\ intake_agent /\ intake_result.status = "needs_clarification") =>
        /\ ~ExecutionWasCalled
        /\ pc = "iter_ended"
        /\ RunLog = <<>>

\* run_iter called Execution for a task Intake rejected.
C30_WitnessRejected ==
    /\ InRunIter
    /\ intake_result.status = "rejected"
    /\ ExecutionWasCalled

\* run_iter ended after a complete judgment with the judgment record as the
\* last line of the log.
C30_WitnessNoTerminalRecord ==
    /\ IterEnded /\ history_store /\ EnteredLoop
    /\ final_judgment.is_complete
    /\ RunLog[Len(RunLog)].type = "judgment"

\* run returned from the intake gate and no callback raised.
GateAnswered ==
    /\ ~InRunIter
    /\ Returned
    /\ intake_result # NoIntake
    /\ "observer" \notin faults

\* C31 as stated: when Intake returns rejected, run reports the rejection
\* whatever tool set Intake proposed; the tool-compatibility check is applied
\* only to tasks that were neither rejected nor in need of clarification.
C31_AsStated ==
    GateAnswered =>
        /\ intake_result.status = "rejected" => result.error_message.kind = "rejected"
        /\ result.error_message.kind = "tool_mismatch" => intake_result.status = "accepted"

\* What run does in C31's cases: the tool check comes first for every task that
\* is not in need of clarification, so a rejected task is reported as rejected
\* only when its proposed tools are empty or all allowed, and as a tool
\* mismatch otherwise.
C31_ToolCheckPrecedesRejection ==
    GateAnswered =>
        /\ intake_result.status = "needs_clarification" =>
            result.error_message.kind = "clarification"
        /\ (intake_result.status = "rejected" /\ ToolsCompatible) =>
            result.error_message.kind = "rejected"
        /\ (intake_result.status # "needs_clarification" /\ ~ToolsCompatible) =>
            /\ result.error_message.kind = "tool_mismatch"
            /\ result.error_message.missing = missing_tools

\* A rejected task that proposed WebSearch where only Read is allowed came
\* back as a tool mismatch.
C31_WitnessRejectedAsMismatch ==
    /\ GateAnswered
    /\ intake_result = IntakeResult("rejected", {"WebSearch"})
    /\ allowed_tools = {"Read"}
    /\ result.status = "error"
    /\ result.error_message = Message("tool_mismatch", {"WebSearch"}, {"Read"})

\* A collaborator call of run or run_iter is in flight.
CallInFlight ==
    pc \in {"intake", "execution", "summary", "judgment",
            "iter_intake", "iter_execution", "iter_summary", "iter_judgment"}

\* run has returned or raised, or the sequence of run_iter has ended.
HasEnded == pc \in {"returned", "raised", "iter_ended", "iter_raised"}

\* C32 as stated: is_running is True from the start of run (or run_iter) until
\* it reaches a terminal state, in particular while any collaborator call is
\* in flight, and False in every state after it has returned.
C32_AsStated ==
    /\ CallInFlight => is_running
    /\ HasEnded => ~is_running

\* What holds in C32's cases: while a collaborator call is in flight
\* is_running is True exactly as long as cancel() has not been called, and it
\* is False after run or run_iter has ended.
C32_RunningUntilCancelled ==
    /\ CallInFlight => (is_running <=> ~cancelled)
    /\ HasEnded => ~is_running

\* cancel() was called during the Execution call of iteration 1: the call is
\* still in flight and is_running is False.
C32_WitnessCancelledInFlight ==
    /\ pc = "execution"
    /\ cancelled
    /\ cancel_at = CancelPoint("execution", 1)
    /\ ~is_running

\* The iterations of the summaries persisted so far, in the order they were
\* written: those of the log, and without a History those Engine._history
\* keeps.
PersistedSummaries == IF history_store THEN load_existing(log) ELSE history

\* The last n entries of list.
LastEntries(list, n) == SubSeq(list, Len(list) - n + 1, Len(list))

\* The Execution call of an iteration of run is in flight.
ExecutionInFlight == pc = "execution"

\* The summaries this run has written are those of the iterations before the
\* one whose Execution call is in flight.
OwnSummaryNotWritten ==
    IF history_store
    THEN CountRecords("summary") = Len(execCalls) - 1
    ELSE Len(history) = Len(execCalls) - 1

\* The context is the window of the summaries persisted before the iteration
\* began: the sentinel over none, else the last min(window, k) of them.
ContextIsWindow ==
    LET k == Len(PersistedSummaries)
    IN  history_context =
            IF k = 0 THEN NoHistoryText
            ELSE Lines(LastEntries(PersistedSummaries,
                                   Min(config_history_context_size, k)))

\* C33 as stated: the history context passed to Execution in iteration i
\* renders exactly the most recent min(window, k) of the k summaries persisted
\* before iteration i began, those of earlier runs included, one line per entry
\* in ascending order, never the summary iteration i itself writes, and is the
\* sentinel when k = 0.
C33_AsStated ==
    ExecutionInFlight =>
        /\ ContextIsWindow
        /\ Ascending(history_context.lines)
        /\ OwnSummaryNotWritten

\* What holds in C33's cases: the context is that window, in the order the
\* summaries were written, which is ascending in every resumed run and in every
\* run over a store that was empty; the summary of iteration i is written
\* after its Execution call.
C33_ContextIsWindowInWriteOrder ==
    ExecutionInFlight =>
        /\ ContextIsWindow
        /\ (resume \/ log_start = 0) => Ascending(history_context.lines)
        /\ OwnSummaryNotWritten

\* A fresh run over a store that held iterations 1 and 2: the context of its
\* iteration 2 lists iterations 1, 2, 1.
C33_WitnessNotAscending ==
    /\ ExecutionInFlight
    /\ history_store /\ ~resume
    /\ iteration = 2
    /\ config_history_context_size = 3
    /\ history_context = Lines(<<1, 2, 1>>)

\* A window smaller than the store: the context of iteration 1 of a run over
\* a store that held iterations 1 and 2 is the line of iteration 2.
C33_WitnessWindow ==
    /\ ExecutionInFlight
    /\ history_store
    /\ iteration = 1
    /\ config_history_context_size = 1
    /\ load_existing(log) = <<1, 2>>
    /\ history_context = Lines(<<2>>)

\* C34 as stated: the number of history entries in the context passed to
\* Execution in any iteration of a run is at most the history_context_size of
\* the TaskInput given to that run.
C34_AsStated ==
    ExecutionInFlight => Len(history_context.lines) <= task_history_context_size

\* What bounds the context in C34's cases: the history_context_size of the
\* EngineConfig the Engine was constructed with.
C34_ContextWithinConfigSize ==
    ExecutionInFlight => Len(history_context.lines) <= config_history_context_size

\* A TaskInput asking for one entry, run by an Engine configured for two, over
\* a store of two summaries: the context has two lines.
C34_WitnessTaskSizeIgnored ==
    /\ ExecutionInFlight
    /\ task_history_context_size = 1
    /\ config_history_context_size = 2
    /\ history_context = Lines(<<1, 2>>)

\* The History a caller gets by loading history.jsonl as it is now.
LoadedFromFile == load_existing(log)

\* The last iteration of the loaded History, History.get_last_iteration().
LoadedLastIteration == IF LoadedFromFile = <<>> THEN 0 ELSE LoadedFromFile[Len(LoadedFromFile)]

\* C35 as stated: on every history log engine runs produced on one file, fresh
\* or resumed, the file-scanning queries agree with the History loaded from the
\* file: get_last_iteration(path) = History.get_last_iteration(),
\* count_iterations(path) = History.count(), and query_history_context(path,
\* limit) lists the same iterations in the same order as get_recent(limit).
C35_AsStated ==
    /\ query_get_last_iteration(log) = LoadedLastIteration
    /\ count_iterations(log) = count(LoadedFromFile)
    /\ \A limit \in 1..MaxWindow :
           query_history_context(log, limit) = get_recent(LoadedFromFile, limit)

\* What holds in C35's cases: the counts always agree, and the two other
\* queries agree with the loaded History whenever the summaries of the file
\* are in strictly increasing order of iteration, as in a file written by one
\* run and the runs that resumed it.
C35_QueriesAgreeOnIncreasingLogs ==
    /\ count_iterations(log) = count(LoadedFromFile)
    /\ (\A k \in 1..(Len(LoadedFromFile) - 1) : LoadedFromFile[k] < LoadedFromFile[k + 1])
          => /\ query_get_last_iteration(log) = LoadedLastIteration
             /\ \A limit \in 1..MaxWindow :
                    query_history_context(log, limit) = get_recent(LoadedFromFile, limit)

\* A fresh run wrote the summary of its iteration 1 after the summaries of
\* iterations 1 and 2 of an earlier run: the file's greatest iteration is 2,
\* the loaded History's last is 1.
C35_WitnessFreshOverOld ==
    /\ ~resume
    /\ LoadedFromFile = <<1, 2, 1>>
    /\ query_get_last_iteration(log) = 2
    /\ LoadedLastIteration = 1
    /\ query_history_context(log, 2) = <<1, 2>>
    /\ get_recent(LoadedFromFile, 2) = <<2, 1>>

\* The operations of History and of KnowledgeBase that only read.
ReadOperations ==
    {"get_recent", "get_failures", "get_context_string", "count",
     "get_last_iteration", "get_all", "query"}

\* One step keeps what the files held as the beginning of what they hold, and
\* a step that is a read leaves the file and the store as they were.
AppendOnlyStep ==
    /\ IsPrefix(jsonl, jsonl')
    /\ IsPrefix(log, log')
    /\ kb_file <= kb_file'
    /\ answer'.op \in ReadOperations
          => /\ UNCHANGED <<jsonl, kept, built, faults>>
             /\ UNCHANGED <<summaries, log, kb_items, kb_file>>

C36_WitnessRead ==
    /\ answer.op = "get_failures"
    /\ answer.value # <<>>
    /\ jsonl = answer.lines
    /\ kept = answer.held
    /\ jsonl # <<>>

\* A query of a KnowledgeBase that holds items returned some of them and left
\* file and store as they were.
C36_WitnessQuery ==
    /\ answer.op = "query"
    /\ answer.value # <<>>
    /\ jsonl = answer.lines
    /\ kept = answer.held

\* JudgmentAgent.run has ended, and what its attempts did.
RunEnded == judging \in {"returned", "raised"}
Failed(k) == attempts[k] \in MessagesTried
RetriableError(k) == attempts[k] \in HasExitCode \cup HasMessageReader
AllRetriable == \A k \in DOMAIN attempts : RetriableError(k)
LastAttempt == attempts[Len(attempts)]

\* The clauses of C37 that bear on every max_retries: at most max_retries
\* attempts are made; a run that returns returns the output of its last
\* attempt, the only one that succeeded; an error that is not retriable ends
\* the run at once, raised as it is.
BoundedAttempts ==
    /\ Len(attempts) <= max_retries
    /\ \A k \in DOMAIN attempts :
           ~RetriableError(k)
               => /\ k = Len(attempts)
                  /\ RunEnded
                  /\ judgment_out = IF Failed(k) THEN RunRaised(attempts[k])
                                    ELSE RunReturned(attempts[k])
    /\ judging = "returned" => attempts # <<>> /\ ~Failed(Len(attempts))

\* C37 as stated: JudgmentAgent.run makes at most max_retries attempts; it
\* returns the result of the first successful attempt; an error that is no
\* retriable CLI error is raised at once, without a further attempt; and when
\* every attempt fails with a retriable error, it raises the last such error
\* after exactly max_retries attempts.
C37_AsStated ==
    /\ BoundedAttempts
    /\ (RunEnded /\ AllRetriable)
          => /\ Len(attempts) = max_retries
             /\ attempts # <<>>
             /\ judgment_out = RunRaised(LastAttempt)

\* C37 amended: the same for max_retries >= 1; with max_retries = 0 no
\* attempt is made and run raises RuntimeError("JudgmentAgent failed with no
\* error captured").
C37_BoundedRetries ==
    /\ BoundedAttempts
    /\ (RunEnded /\ AllRetriable)
          => /\ Len(attempts) = max_retries
             /\ judgment_out = IF max_retries >= 1 THEN RunRaised(LastAttempt)
                               ELSE RunRaised(NoErrorCaptured)

\* Three attempts of three failed with retriable errors, and run raised the
\* last of them.
C37_WitnessExhausted ==
    /\ max_retries = 3
    /\ judging = "raised"
    /\ attempts = <<"Command failed with exit code 1", "Failed to read from Message Reader",
                    "Command failed with exit code 1">>
    /\ judgment_out = RunRaised("Command failed with exit code 1")

\* The second attempt succeeded after a retriable failure.
C37_WitnessSecondAttempt ==
    /\ judging = "returned"
    /\ attempts = <<"Failed to read from Message Reader", "complete">>
    /\ judgment_out = RunReturned("complete")

\* No attempt and no error to raise again.
C37_WitnessNoAttempt ==
    /\ max_retries = 0
    /\ judging = "raised"
    /\ attempts = <<>>
    /\ judgment_out = RunRaised(NoErrorCaptured)

\* run was called and has not ended.
RunUnderWay == pc # "idle" /\ ~InRunIter /\ ~Terminal

\* The iteration of the last summary the store held when run was called, and
\* the iteration a run starts from according to C38: 1, or that iteration + 1
\* on resume.
LastPersistedAtStart ==
    LET held == load_existing(SubSeq(log, 1, log_start))
    IN  IF held = <<>> THEN 0 ELSE held[Len(held)]
ClaimedStart == IF resume THEN LastPersistedAtStart + 1 ELSE 1
ExecutionBudget ==
    IF max_iter - ClaimedStart + 1 > 0 THEN max_iter - ClaimedStart + 1 ELSE 0

\* C38: every call on a collaborator, every store write and every observer
\* call returning or raising in the end, every run reaches a terminal state
\* (it returns a LoopResult or raises), and it invokes Execution at most
\* max(0, budget - start + 1) times, start being 1 for a fresh run and
\* last_persisted + 1 on resume.
C38_RunTerminates ==
    /\ [](RunUnderWay \/ Terminal => Len(execCalls) <= ExecutionBudget)
    /\ (RunUnderWay ~> Terminal)

\* A resumed run of budget 2 over a store whose last summary is of iteration
\* 1 has ended after one Execution call, that of iteration 2.
C38_WitnessResumed ==
    /\ Returned
    /\ resume
    /\ history_store
    /\ max_iter = 2
    /\ start_iteration = 2
    /\ execCalls = <<2>>
    /\ result.status = "max_iterations"

\* A resumed run of budget 1 over a store whose last summary is of iteration
\* 1 has ended without an Execution call.
C38_WitnessNothingLeft ==
    /\ Returned
    /\ resume
    /\ max_iter = 1
    /\ LastPersistedAtStart = 1
    /\ execCalls = <<>>

\* This run resumes the history.jsonl an earlier run left, and it has returned
\* completed or max_iterations.
Resumption == first.made /\ resume
FinishedResumption ==
    /\ Resumption
    /\ Returned
    /\ result.status \in {"completed", "max_iterations"}

\* Iteration i has a judgment record in history.jsonl.
Judged(i) == \E k \in DOMAIN log : log[k].type = "judgment" /\ log[k].iteration = i
PersistedLast == LET held == load_existing(log) IN IF held = <<>> THEN 0 ELSE held[Len(held)]

\* C39 as stated: across a failed run and its resumption no iteration is left
\* unjudged: once a run with resume=True has finished completed or
\* max_iterations, every iteration from 1 to the last persisted summary has a
\* judgment record in the log, even when the earlier run failed in Judgment
\* after it had persisted the summary of that iteration.
C39_AsStated ==
    FinishedResumption => \A i \in 1..PersistedLast : Judged(i)

\* What holds in C39's cases: the iterations the resumed run itself went
\* through, from the one after the last summary it found, are all judged.
C39_ResumedIterationsJudged ==
    FinishedResumption => \A i \in (LastPersistedAtStart + 1)..PersistedLast : Judged(i)

\* The earlier run raised in Judgment of iteration 1, whose summary it had
\* persisted; the resumed run went through iteration 2 and returned, and
\* iteration 1 has no judgment record.
C39_WitnessUnjudged ==
    /\ FinishedResumption
    /\ first.status = "error"
    /\ execCalls = <<2>>
    /\ Judged(2)
    /\ ~Judged(1)

\* The log ended with a final_result record of status completed when run was
\* called.
CompletedAtStart ==
    /\ log_start > 0
    /\ log[log_start].type = "final_result"
    /\ log[log_start].status = "completed"

\* A summary record stands after a final_result record of status completed.
SummaryAfterCompleted ==
    \E k \in DOMAIN log :
        /\ log[k].type = "final_result"
        /\ log[k].status = "completed"
        /\ \E later \in (k + 1)..Len(log) : log[later].type = "summary"

\* C40 as stated: a run with resume=True on a store whose log ends with a
\* final_result record of status completed does not invoke Execution again,
\* and so the log holds no summary record after a completed terminal record.
C40_AsStated ==
    (Resumption /\ CompletedAtStart /\ pc # "idle")
        => execCalls = <<>> /\ ~SummaryAfterCompleted

\* What holds in C40's cases: such a run invokes Execution for the iterations
\* the budget leaves after the last persisted one, and for none when the
\* budget does not exceed it.
C40_ResumesWithinBudget ==
    (Resumption /\ CompletedAtStart /\ pc # "idle")
        => /\ Len(execCalls) <= ExecutionBudget
           /\ (max_iter <= LastPersistedAtStart => execCalls = <<>>)
           /\ \A k \in DOMAIN execCalls : execCalls[k] > LastPersistedAtStart

\* The earlier run completed in iteration 1; resumed with a budget of 2, run
\* has called Execution for iteration 2 and persisted its summary after the
\* completed record.
C40_WitnessRunsOn ==
    /\ Resumption
    /\ CompletedAtStart
    /\ first.status = "completed"
    /\ execCalls = <<2>>
    /\ SummaryAfterCompleted

====
